---------------------------- MODULE Spec2Model ----------------------------
(***************************************************************************)
(* A model of the LinkedIn job scraper's sharded harvesting engine          *)
(* (src/linkedin_scraper/src/linkedin_scraper.py): the adaptive rate        *)
(* limiter, the shard generator, the shard loop of                          *)
(* scrape_all_shards_api_only with its dedup ledger, and the progress file  *)
(* written by save_progress and read by load_progress; and of the shard     *)
(* extractor (get_jobs_api, get_job_details_api) of that scraper and of the *)
(* optimized scraper with its rendered-page fallback                        *)
(* (src/linkedin_scraper/linkedin_scraper.py).                              *)
(*                                                                         *)
(* Delays are Python floats in the source.  They are modelled in fixed      *)
(* point, in millionths of a second, every product truncated to a whole     *)
(* number of millionths.                                                    *)
(***************************************************************************)
EXTENDS Integers, Sequences, FiniteSets, TLC

(***************************************************************************)
(* Bounds of the model.                                                     *)
(***************************************************************************)
\* How many of the six experience codes the modelled search space uses.
NumExp == 2
\* How many of the seven job-type codes the modelled search space uses.
NumJT == 2
\* How many runs of main() one harvest (a fresh run and its resumed runs) has.
MaxRuns == 2
\* How many record_success/record_error calls the stand-alone limiter takes.
MaxCalls == 50
\* The page sizes (get_jobs_api's count) tried are 1..MaxCount.
MaxCount == 2
\* The most full pages the listing endpoint holds for a shard.
MaxFull == 6
\* The most job cards the rendered search page of a shard shows.
MaxCards == 1
MaxCandidates == 2
MaxNamed == 3
MaxLoaded == 7

(***************************************************************************)
(* Program constants.                                                       *)
(***************************************************************************)
BASE_DELAY == 1000000
MIN_DELAY == 300000
MAX_DELAY == 5000000
BREAK_INTERVAL == 10
MAX_PAGES_PER_SHARD == 5
\* The literal of "if shard_num % 5 == 0:  # Longer wait every 5 shards".
LONG_WAIT_INTERVAL == 5
MAX_ATTEMPTS == 20
STABLE_LIMIT == 3
\* The literal of "for i, card in enumerate(job_cards[:25])".
DOM_CARD_LIMIT == 25
\* The literal of "if shard_num % 10 == 0: save_progress(...)".
SAVE_INTERVAL == 10
\* The keys of progress_data, in the order json.dump writes them.
PROGRESS_KEYS == <<"all_jobs", "shard_results", "shard_mappings",
                   "completed_shards", "timestamp">>

ALL_EXP_CODES == <<"1", "2", "3", "4", "5", "6">>
ALL_JT_CODES == <<"I", "F", "C", "T", "P", "V", "O">>
EXP_CODES == SubSeq(ALL_EXP_CODES, 1, NumExp)
JT_CODES == SubSeq(ALL_JT_CODES, 1, NumJT)
WT_CODES == <<"2", "1", "3">>

EXP_LABEL == [c \in {"1", "2", "3", "4", "5", "6"} |->
                CASE c = "1" -> "intern" [] c = "2" -> "entry"
                  [] c = "3" -> "associate" [] c = "4" -> "mid-senior"
                  [] c = "5" -> "director" [] OTHER -> "executive"]
JT_LABEL == [c \in {"I", "F", "C", "T", "P", "V", "O"} |->
                CASE c = "I" -> "internship" [] c = "F" -> "full_time"
                  [] c = "C" -> "contract" [] c = "T" -> "temporary"
                  [] c = "P" -> "part_time" [] c = "V" -> "volunteer"
                  [] OTHER -> "other"]
WT_LABEL == [c \in {"1", "2", "3"} |->
                CASE c = "1" -> "on_site" [] c = "2" -> "remote"
                  [] OTHER -> "hybrid"]

Max(a, b) == IF a >= b THEN a ELSE b
Min(a, b) == IF a <= b THEN a ELSE b
Range(s) == {s[i] : i \in DOMAIN s}

\* Python's None, for a failed session.
None == "None"

(***************************************************************************)
(* AdaptiveRateLimiter.                                                     *)
(* response_times is left out: it is appended to and trimmed, never read.   *)
(***************************************************************************)
NewRateLimiter ==
    [current_delay |-> BASE_DELAY, error_count |-> 0, success_count |-> 0]

\* A record_success that lowers the delay on every 4th success.
RecordSuccessEveryFourth(rl) ==
    LET sc == rl.success_count + 1 IN
    [rl EXCEPT !.success_count = sc,
               !.current_delay =
                   IF sc % 4 = 0 THEN Max(MIN_DELAY, (@ * 9) \div 10) ELSE @]

\* A record_success that lowers the delay on every success.
RecordSuccessEvery(rl) ==
    [rl EXCEPT !.success_count = @ + 1,
               !.current_delay = Max(MIN_DELAY, (@ * 9) \div 10)]

RecordSuccess(rl) ==
    LET sc == rl.success_count + 1 IN
    [rl EXCEPT !.success_count = sc,
               !.current_delay =
                   IF sc % 3 = 0 THEN Max(MIN_DELAY, (@ * 9) \div 10) ELSE @]

\* A record_error that raises the delay only once 3 successes were counted.
RecordErrorAfterSuccesses(rl) ==
    [rl EXCEPT !.error_count = @ + 1,
               !.current_delay = IF rl.success_count >= 3
                                 THEN Min(MAX_DELAY, (@ * 3) \div 2) ELSE @]

\* A record_error that forgets the cap at max_delay.
RecordErrorNoCap(rl) ==
    [rl EXCEPT !.error_count = @ + 1, !.current_delay = (@ * 3) \div 2]

RecordError(rl) ==
    [rl EXCEPT !.error_count = @ + 1,
               !.current_delay = Min(MAX_DELAY, (@ * 3) \div 2)]

\* x / d rounded up, for the lower end of a range of whole millionths.
CeilDiv(x, d) == (x + d - 1) \div d

\* A get_delay drawing from +-50% of current_delay.
GetDelayWide(rl) ==
    {CeilDiv(rl.current_delay, 2), rl.current_delay,
     (rl.current_delay * 3) \div 2}

\* get_delay: random.uniform(current_delay * 0.8, current_delay * 1.2) returns
\* some value between its two arguments; the values tried are the two ends
\* (the nearest whole millionths inside the range) and the middle.
GetDelay(rl) ==
    {CeilDiv(rl.current_delay * 4, 5), rl.current_delay,
     (rl.current_delay * 6) \div 5}

\* get_break_delay: random.uniform(current_delay * 1.2, current_delay * 1.5);
\* the values tried are the two ends.
GetBreakDelay(rl) ==
    {CeilDiv(rl.current_delay * 6, 5), (rl.current_delay * 3) \div 2}

\* A pacing that never takes the longer break.
PacingDelaysNoBreak(rl, n) == GetDelay(rl)

\* "if shard_num % BREAK_INTERVAL == 0: wait_time = get_break_delay()
\*  else: wait_time = get_delay()"
PacingDelays(rl, n) ==
    IF n % BREAK_INTERVAL = 0 THEN GetBreakDelay(rl) ELSE GetDelay(rl)

(***************************************************************************)
(* The company blacklist.  A string is the sequence of its characters.      *)
(***************************************************************************)
UPPERCASE == <<"A", "B", "C", "D", "E", "F", "G", "H", "I", "J", "K", "L", "M",
               "N", "O", "P", "Q", "R", "S", "T", "U", "V", "W", "X", "Y", "Z">>
LOWERCASE == <<"a", "b", "c", "d", "e", "f", "g", "h", "i", "j", "k", "l", "m",
               "n", "o", "p", "q", "r", "s", "t", "u", "v", "w", "x", "y", "z">>

\* str.lower() of one character.
Lower(c) ==
    IF c \in Range(UPPERCASE)
    THEN LOWERCASE[CHOOSE i \in DOMAIN UPPERCASE : UPPERCASE[i] = c]
    ELSE c

\* The alternatives of BLACKLIST_RE; each is a literal ("\." is a dot).
BLACKLIST_RE ==
    {<<"j", "o", "b", "r", "i", "g", "h", "t">>,
     <<"j", "o", "o", "b", "l", "e">>,
     <<"t", "a", "l", "e", "n", "t", ".", "c", "o", "m">>,
     <<"z", "i", "p", "r", "e", "c", "r", "u", "i", "t", "e", "r">>,
     <<"l", "e", "n", "s", "a">>,
     <<"a", "d", "z", "u", "n", "a">>,
     <<"s", "i", "m", "p", "l", "y", "h", "i", "r", "e", "d">>,
     <<"n", "e", "u", "v", "o", "o">>,
     <<"j", "o", "r", "a">>,
     <<"g", "l", "a", "s", "s", "d", "o", "o", "r">>,
     <<"j", "o", "b", "s", "2", "c", "a", "r", "e", "e", "r", "s">>,
     <<"m", "y", "j", "o", "b", "h", "e", "l", "p", "e", "r">>,
     <<"c", "a", "r", "e", "e", "r", "b", "u", "i", "l", "d", "e", "r">>,
     <<"m", "o", "n", "s", "t", "e", "r">>,
     <<"s", "n", "a", "g", "a", "j", "o", "b">>,
     <<"i", "n", "s", "i", "g", "h", "t", " ", "g", "l", "o", "b", "a", "l">>,
     <<"t", "e", "k", "s", "y", "s", "t", "e", "m", "s">>,
     <<"k", "f", "o", "r", "c", "e">>,
     <<"a", "e", "r", "o", "t", "e", "k">>,
     <<"r", "a", "n", "d", "s", "t", "a", "d">>,
     <<"r", "o", "b", "e", "r", "t", " ", "h", "a", "l", "f">>,
     <<"a", "p", "e", "x", " ", "s", "y", "s", "t", "e", "m", "s">>,
     <<"e", "x", "p", "e", "r", "i", "s">>,
     <<"a", "c", "t", "a", "l", "e", "n", "t">>}

\* re.search of one literal, compared as written.
SearchExact(pat, str) ==
    \E i \in 1..(Len(str) - Len(pat) + 1) :
        \A j \in 1..Len(pat) : str[i + j - 1] = pat[j]

\* re.search of one literal under re.I: it matches anywhere in the string,
\* whatever the case of the string's letters.
Search(pat, str) ==
    \E i \in 1..(Len(str) - Len(pat) + 1) :
        \A j \in 1..Len(pat) : Lower(str[i + j - 1]) = pat[j]

NA == <<"N", "/", "A">>

\* An is_blacklisted whose pattern was compiled without re.I.
IsBlacklistedCaseSensitive(company_name) ==
    IF company_name = <<>> \/ company_name = NA THEN FALSE
    ELSE \E pat \in BLACKLIST_RE : SearchExact(pat, company_name)

\* "if not company_name or company_name == 'N/A': return False
\*  return bool(BLACKLIST_RE.search(company_name))"
is_blacklisted(company_name) ==
    IF company_name = <<>> \/ company_name = NA THEN FALSE
    ELSE \E pat \in BLACKLIST_RE : Search(pat, company_name)

(***************************************************************************)
(* generate_prioritized_shards: the shards named by a historical ordering   *)
(* when one is given, else three nested loops, experience outermost.        *)
(***************************************************************************)
RECURSIVE Flatten(_)
Flatten(ss) == IF ss = <<>> THEN <<>> ELSE Head(ss) \o Flatten(Tail(ss))

\* str.split(sep) of a string given as the sequence of its characters.
RECURSIVE Split(_, _)
Split(str, sep) ==
    IF \A i \in DOMAIN str : str[i] # sep THEN <<str>>
    ELSE LET i == CHOOSE k \in DOMAIN str :
                      str[k] = sep /\ \A m \in 1..(k - 1) : str[m] # sep
         IN <<SubSeq(str, 1, i - 1)>> \o Split(SubSeq(str, i + 1, Len(str)), sep)

\* A facet code is one character long: the code spelled by a piece of a key.
CodeOf(chars) == chars[1]

\* f"{exp_level}_{job_type}_{workplace_type}" as a string.
FormatKey(shard) == <<shard[1], "_", shard[2], "_", shard[3]>>

\* "exp_level, job_type, workplace_type = shard_key.split('_')"
ParseKey(shard_key) ==
    LET parts == Split(shard_key, "_")
    IN <<CodeOf(parts[1]), CodeOf(parts[2]), CodeOf(parts[3])>>

\* load_shard_priorities returns None: there is no historical ordering.
load_shard_priorities == <<>>

\* A generator whose innermost loop leaves out the last workplace type.
GenerateWithoutLast(priority_shards, codes) ==
    Flatten([e \in DOMAIN codes.exp |->
        Flatten([j \in DOMAIN codes.jt |->
            [w \in 1..(Len(codes.wt) - 1) |->
                <<codes.exp[e], codes.jt[j], codes.wt[w]>>]])])

\* A generator that nests the loops the other way round.
GenerateWorkplaceOutermost(priority_shards, codes) ==
    Flatten([w \in DOMAIN codes.wt |->
        Flatten([j \in DOMAIN codes.jt |->
            [e \in DOMAIN codes.exp |->
                <<codes.exp[e], codes.jt[j], codes.wt[w]>>]])])

generate_prioritized_shards(priority_shards, codes) ==
    IF priority_shards # <<>>
    THEN [i \in DOMAIN priority_shards |-> ParseKey(priority_shards[i])]
    ELSE Flatten([e \in DOMAIN codes.exp |->
             Flatten([j \in DOMAIN codes.jt |->
                 [w \in DOMAIN codes.wt |->
                     <<codes.exp[e], codes.jt[j], codes.wt[w]>>]])])

\* The code lists of the module.
Codes == [exp |-> EXP_CODES, jt |-> JT_CODES, wt |-> WT_CODES]

shard_combinations == generate_prioritized_shards(load_shard_priorities, Codes)
total_possible == Len(shard_combinations)

\* shard_key = f"{exp_level}_{job_type}_{workplace_type}", kept as the triple.
ShardKey(shard) == shard
Labels(shard) == <<EXP_LABEL[shard[1]], JT_LABEL[shard[2]], WT_LABEL[shard[3]]>>

(***************************************************************************)
(* The dedup ledger of scrape_all_shards_api_only.  A Python dict is a      *)
(* function on the set of its keys.                                         *)
(***************************************************************************)
EmptyDict == [k \in {} |-> k]
DictSet(d, k, v) == [x \in DOMAIN d \cup {k} |-> IF x = k THEN v ELSE d[x]]

EmptyLedger ==
    [all_jobs |-> <<>>, shard_results |-> EmptyDict,
     shard_mappings |-> EmptyDict, completed_shards |-> {},
     seen_job_ids |-> {}]

\* The record get_job_details_api returns, with the shard fields the loop adds.
Job(job_id, shard) ==
    [job_id |-> job_id, source |-> "api", shard_key |-> ShardKey(shard),
     filters |-> Labels(shard)]

\* A merge step that appends the job whether or not its id was seen.
MergeJobNoDedup(L, job_id, shard, shard_num) ==
    LET old == IF job_id \in DOMAIN L.shard_mappings
               THEN L.shard_mappings[job_id] ELSE <<>>
        entry == [shard_key |-> ShardKey(shard), shard_num |-> shard_num,
                  labels |-> Labels(shard)]
    IN [L EXCEPT !.shard_mappings = DictSet(@, job_id, Append(old, entry)),
                 !.seen_job_ids = @ \cup {job_id},
                 !.all_jobs = Append(@, Job(job_id, shard))]

\* One pass of "for job in shard_jobs".
MergeJob(L, job_id, shard, shard_num) ==
    LET old == IF job_id \in DOMAIN L.shard_mappings
               THEN L.shard_mappings[job_id] ELSE <<>>
        entry == [shard_key |-> ShardKey(shard), shard_num |-> shard_num,
                  labels |-> Labels(shard)]
        mapped == [L EXCEPT !.shard_mappings =
                                DictSet(@, job_id, Append(old, entry))]
    IN IF job_id \notin L.seen_job_ids
       THEN [mapped EXCEPT !.seen_job_ids = @ \cup {job_id},
                           !.all_jobs = Append(@, Job(job_id, shard))]
       ELSE mapped

RECURSIVE MergeJobs(_, _, _, _)
MergeJobs(L, shard_jobs, shard, shard_num) ==
    IF shard_jobs = <<>> THEN L
    ELSE MergeJobs(MergeJob(L, Head(shard_jobs), shard, shard_num),
                   Tail(shard_jobs), shard, shard_num)

\* An iteration that forgets to mark a shard without jobs as completed.
MergeShardUnmarked(L, shard, shard_num, shard_jobs) ==
    LET result == [exp_level |-> shard[1], job_type |-> shard[2],
                   workplace_type |-> shard[3],
                   job_count |-> Len(shard_jobs), labels |-> Labels(shard)]
        tracked == [L EXCEPT !.shard_results =
                                 DictSet(@, ShardKey(shard), result)]
        merged == MergeJobs(tracked, shard_jobs, shard, shard_num)
    IN IF shard_jobs = <<>> THEN merged
       ELSE [merged EXCEPT !.completed_shards = @ \cup {ShardKey(shard)}]

\* "Track results" to "Mark shard as completed" of one loop iteration.
MergeShard(L, shard, shard_num, shard_jobs) ==
    LET result == [exp_level |-> shard[1], job_type |-> shard[2],
                   workplace_type |-> shard[3],
                   job_count |-> Len(shard_jobs), labels |-> Labels(shard)]
        tracked == [L EXCEPT !.shard_results =
                                 DictSet(@, ShardKey(shard), result)]
        merged == MergeJobs(tracked, shard_jobs, shard, shard_num)
    IN [merged EXCEPT !.completed_shards = @ \cup {ShardKey(shard)}]


(***************************************************************************)
(* The remote catalog, stubbed: the records a shard's listing and detail    *)
(* requests resolve to (after the blacklist filter) are fixed for the whole *)
(* harvest and depend on the shard's workplace type.  Job ids repeat inside *)
(* one output (the same card on two listing pages) and across outputs.      *)
(***************************************************************************)
Outputs == {<<>>, <<"101">>, <<"101", "101">>, <<"101", "102">>}
Stubs == [Range(WT_CODES) -> Outputs]

(***************************************************************************)
(* State.                                                                   *)
(***************************************************************************)
VARIABLES
    pc,               \* where the process running main() is
    max_shards,       \* args.max_shards (0 for None: "if max_shards and ...")
    resume,           \* args.resume
    api_session,      \* what setup_session returned
    all_jobs, shard_results, shard_mappings, completed_shards,
    seen_job_ids, shard_num,
    rate_limiter,     \* the AdaptiveRateLimiter of this run
    wait_kind,        \* which delay the last time.sleep of the loop took
    progress_file,    \* data/scraping_progress.json
    json_file,        \* data/linkedin_jobs_simplified.json
    clock,            \* datetime.now(), as the number of saves of this harvest
    stub,             \* the catalog's answers
    run_no,           \* runs of this harvest so far
    prev_run,         \* how the previous run of this harvest went
    fetched,          \* shard numbers handed to scrape_shard_api_only, this run
    int_pc,           \* where the process was when it was interrupted
    streak,           \* successes recorded since the last error
    window,           \* current_delay before each of the last <= 3 successes
                      \* recorded since the last error (stand-alone limiter)
    last_delay,       \* <<v>> when the limiter's last call was a get_delay
                      \* that returned v, else <<>> (stand-alone limiter)
    variant,          \* which scraper's extractor runs: "api_only" or "optimized"
    count,            \* get_jobs_api's page size
    listing,          \* the listing endpoint's answers for the shard
    dom,              \* what the rendered search page of the shard holds
    page,             \* get_jobs_api's page
    requests,         \* the start offsets of the listing requests issued
    api_jobs,         \* what get_jobs_api has collected, then returned
    dom_calls,        \* calls of get_jobs_dom_smart for the shard
    shard_output,     \* what scrape_shard_* returned
    job_data,         \* the posting a detail request resolves to
    job_details,      \* what get_job_details_api returned for it
    site,             \* per workplace type, what the two paths yield (optimized)
    wait_time,        \* <<v>> after the pacing sleep of v of the shard just
                      \* fetched, <<>> once the next shard is fetched
    candidates,       \* what the detail requests of a page's job ids resolve to
    in_flight,        \* the job ids whose detail-fetch worker is running
    finished,         \* the job ids whose future is done and not yet collected
    collected,        \* jobs of get_job_details_concurrent, as collected so far
    cards,            \* the job cards of the shard's rendered search page
    facets,           \* the code lists handed to the shard generator
    priority,         \* the historical ordering handed to it (<<>> for None)
    generated,        \* <<shards>> once it has returned shards, else <<>>
    attempt,          \* progressive_scroll_and_load's loop index
    previous_job_count, stable_count,
    current_count,    \* the job cards counted at the last observation
    recent,           \* of the last <= 3 observations: did the count exceed
                      \* the observation before it, and every earlier one
    highest,          \* the largest count observed so far
    active_jobs,      \* active_jobs[job_id]["status"], "absent" without entry
    task_fault,       \* the statement of the analytics task that raises
    jobs_bucket,      \* whether JOBS_BUCKET is set
    s3_fault,         \* whether upload_file raises
    s3_uploads,       \* how each call of s3_client.upload_file ended
    scheduled_response, \* <<what run_scheduled_scraping returned>>, else <<>>
    jobs_file         \* the job ids in the task's jobs_file, <<>> without file

ledger_vars == <<all_jobs, shard_results, shard_mappings, completed_shards,
                 seen_job_ids>>
run_vars == <<max_shards, resume, api_session, run_no, prev_run>>
disk_vars == <<progress_file, json_file, clock>>
hist_vars == <<window, last_delay>>
extractor_vars == <<variant, count, listing, dom, page, requests, api_jobs,
                    dom_calls, shard_output>>
details_vars == <<job_data, job_details>>
pool_vars == <<candidates, in_flight, finished, collected, cards>>
generator_vars == <<facets, priority, generated>>
scroll_vars == <<attempt, previous_job_count, stable_count, current_count,
                 recent, highest>>
scheduled_vars == <<active_jobs, task_fault, jobs_bucket, s3_fault,
                    s3_uploads, scheduled_response, jobs_file>>
other_vars == <<extractor_vars, details_vars, site, pool_vars, generator_vars,
               scroll_vars, scheduled_vars>>
vars == <<pc, max_shards, resume, api_session, all_jobs, shard_results,
          shard_mappings, completed_shards, seen_job_ids, shard_num,
          rate_limiter, wait_kind, progress_file, json_file, clock, stub,
          run_no, prev_run, fetched, int_pc, streak, window, last_delay,
          variant, count, listing, dom, page, requests, api_jobs, dom_calls,
          shard_output, job_data, job_details, site, wait_time, candidates,
          in_flight, finished, collected, cards, facets, priority, generated,
          attempt, previous_job_count, stable_count, current_count, recent,
          highest, active_jobs, task_fault, jobs_bucket, s3_fault, s3_uploads,
          scheduled_response, jobs_file>>

Running == {"loop", "fetching", "saving", "writing", "sleeping", "returned"}
Ended == {"done", "interrupted", "load_failed"}

Ledger ==
    [all_jobs |-> all_jobs, shard_results |-> shard_results,
     shard_mappings |-> shard_mappings, completed_shards |-> completed_shards,
     seen_job_ids |-> seen_job_ids]

SetLedger(L) ==
    /\ all_jobs' = L.all_jobs
    /\ shard_results' = L.shard_results
    /\ shard_mappings' = L.shard_mappings
    /\ completed_shards' = L.completed_shards
    /\ seen_job_ids' = L.seen_job_ids

(***************************************************************************)
(* The progress file.  A file is its existence, how many of the keys of     *)
(* progress_data json.dump has written into it so far, and those keys'      *)
(* values; it parses as JSON only when all the keys are written.            *)
(***************************************************************************)
BlankProgress ==
    [all_jobs |-> <<>>, shard_results |-> EmptyDict,
     shard_mappings |-> EmptyDict, completed_shards |-> <<>>,
     timestamp |-> 0]
NoFile == [exists |-> FALSE, written |-> 0, data |-> BlankProgress]

FileComplete(f) == f.exists /\ f.written = Len(PROGRESS_KEYS)
FileTruncated(f) == f.exists /\ f.written < Len(PROGRESS_KEYS)

\* list(completed_shards): Python fixes no order for a set's elements, and
\* load_progress turns the list back into a set; the list is kept in shard order.
SetToList(S) == SelectSeq(shard_combinations, LAMBDA sh : ShardKey(sh) \in S)

\* progress_data as save_progress builds it.
ProgressData(jobs, results, mappings, completed, now) ==
    [all_jobs |-> jobs, shard_results |-> results, shard_mappings |-> mappings,
     completed_shards |-> completed, timestamp |-> now]

\* load_progress: the four values it returns, when it returns.
load_progress(f) ==
    IF ~f.exists
    THEN [all_jobs |-> <<>>, shard_results |-> EmptyDict,
          shard_mappings |-> EmptyDict, completed_shards |-> {}]
    ELSE [all_jobs |-> f.data.all_jobs, shard_results |-> f.data.shard_results,
          shard_mappings |-> f.data.shard_mappings,
          completed_shards |-> Range(f.data.completed_shards)]

\* A resume that forgets the completed shards that yielded nothing.
InitialLedgerRetrying(rs, f) ==
    LET p == load_progress(f)
        kept == IF rs /\ p.completed_shards # {}
                THEN p
                ELSE [all_jobs |-> <<>>, shard_results |-> EmptyDict,
                      shard_mappings |-> EmptyDict, completed_shards |-> {}]
    IN [all_jobs |-> kept.all_jobs, shard_results |-> kept.shard_results,
        shard_mappings |-> kept.shard_mappings,
        completed_shards |->
            {k \in kept.completed_shards : kept.shard_results[k].job_count > 0},
        seen_job_ids |-> {kept.all_jobs[i].job_id : i \in DOMAIN kept.all_jobs}]

\* "Load progress if resuming": the ledger the loop starts from.
InitialLedger(rs, f) ==
    LET p == load_progress(f)
        kept == IF rs /\ p.completed_shards # {}
                THEN p
                ELSE [all_jobs |-> <<>>, shard_results |-> EmptyDict,
                      shard_mappings |-> EmptyDict, completed_shards |-> {}]
    IN [all_jobs |-> kept.all_jobs, shard_results |-> kept.shard_results,
        shard_mappings |-> kept.shard_mappings,
        completed_shards |-> kept.completed_shards,
        seen_job_ids |-> {kept.all_jobs[i].job_id : i \in DOMAIN kept.all_jobs}]

\* setup_session: the session, or None when there are no cookies and no login.
setup_session(cookies_ok) == IF cookies_ok THEN "session" ELSE None

\* scrape_shard_api_only: get_jobs_api catches the AttributeError of
\* session.get on a None session and returns what it has, the empty list.
scrape_shard_api_only(session, shard) ==
    IF session = None THEN <<>> ELSE stub[shard[3]]

NoRun == [max_shards |-> 0, api_session |-> None, end |-> "none"]
\* The --max-shards values tried: absent (None, as 0) and 5.
MaxShardsArgs == {0, 5}

\* The state before main() of the harvesting engine is started.
HarvestInit ==
    /\ pc = "idle"
    /\ max_shards = 0
    /\ resume = FALSE
    /\ api_session = None
    /\ all_jobs = <<>>
    /\ shard_results = EmptyDict
    /\ shard_mappings = EmptyDict
    /\ completed_shards = {}
    /\ seen_job_ids = {}
    /\ shard_num = 0
    /\ rate_limiter = NewRateLimiter
    /\ wait_kind = "none"
    /\ wait_time = <<>>
    /\ progress_file = NoFile
    /\ json_file = [exists |-> FALSE, jobs |-> <<>>]
    /\ clock = 0
    /\ stub \in Stubs
    /\ run_no = 0
    /\ prev_run = NoRun
    /\ fetched = <<>>
    /\ int_pc = "none"
    /\ streak = 0
    /\ window = <<>>
    /\ last_delay = <<>>

\* The state of the other programs' variables while they are not running.
ExtractorIdle ==
    /\ count = 0
    /\ listing = <<>>
    /\ dom = <<>>
    /\ page = 0
    /\ requests = <<>>
    /\ api_jobs = <<>>
    /\ dom_calls = 0
    /\ shard_output = <<>>

DetailsIdle == job_data = <<>> /\ job_details = <<>>

SiteIdle == site = <<>>

PoolIdle ==
    /\ candidates = <<>>
    /\ in_flight = {}
    /\ finished = {}
    /\ collected = <<>>
    /\ cards = <<>>

GeneratorIdle == facets = <<>> /\ priority = <<>> /\ generated = <<>>

ScrollIdle ==
    /\ attempt = 0
    /\ previous_job_count = 0
    /\ stable_count = 0
    /\ current_count = 0
    /\ recent = <<>>
    /\ highest = 0

ScheduledIdle ==
    /\ active_jobs = "absent"
    /\ task_fault = "none"
    /\ jobs_bucket = FALSE
    /\ s3_fault = FALSE
    /\ s3_uploads = <<>>
    /\ scheduled_response = <<>>
    /\ jobs_file = <<>>

\* The harvesting engine is the API-only scraper.
Init ==
    /\ HarvestInit
    /\ variant = "api_only"
    /\ ExtractorIdle
    /\ DetailsIdle
    /\ SiteIdle
    /\ PoolIdle
    /\ GeneratorIdle
    /\ ScrollIdle
    /\ ScheduledIdle

(***************************************************************************)
(* main() up to the shard loop.                                             *)
(***************************************************************************)
\* What every start of main() does whatever the arguments.
Start(ms, rs, session, L) ==
    /\ max_shards' = ms
    /\ resume' = rs
    /\ api_session' = session
    /\ SetLedger(L)
    /\ shard_num' = 0
    /\ rate_limiter' = NewRateLimiter
    /\ streak' = 0
    /\ wait_kind' = "none"
    /\ wait_time' = <<>>
    /\ json_file' = [exists |-> FALSE, jobs |-> <<>>]
    /\ fetched' = <<>>
    /\ int_pc' = "none"
    /\ UNCHANGED <<stub, hist_vars, other_vars>>

\* main() without --resume: both data files are removed, the ledger is empty.
\* It begins a new harvest.
StartFresh(ms, cookies_ok) ==
    /\ pc \in Ended \cup {"idle"}
    /\ Start(ms, FALSE, setup_session(cookies_ok), InitialLedger(FALSE, NoFile))
    /\ progress_file' = NoFile
    /\ clock' = 0
    /\ run_no' = 1
    /\ prev_run' = NoRun
    /\ pc' = "loop"

\* main() with --resume, the progress file absent or whole.
StartResume(ms, cookies_ok) ==
    /\ pc \in Ended \cup {"idle"}
    /\ run_no < MaxRuns
    /\ ~FileTruncated(progress_file)
    /\ Start(ms, TRUE, setup_session(cookies_ok),
             InitialLedger(TRUE, progress_file))
    /\ run_no' = run_no + 1
    /\ prev_run' = IF pc = "idle" THEN NoRun
                   ELSE [max_shards |-> max_shards,
                         api_session |-> api_session, end |-> pc]
    /\ pc' = "loop"
    /\ UNCHANGED <<progress_file, clock>>

\* main() with --resume on a truncated progress file: json.load raises
\* JSONDecodeError, load_progress catches FileNotFoundError only, the process
\* dies with a traceback before setup_session.
StartResumeTruncated(ms) ==
    /\ pc \in Ended
    /\ run_no < MaxRuns
    /\ FileTruncated(progress_file)
    /\ Start(ms, TRUE, None, InitialLedger(FALSE, NoFile))
    /\ run_no' = run_no + 1
    /\ prev_run' = [max_shards |-> max_shards,
                    api_session |-> api_session, end |-> pc]
    /\ pc' = "load_failed"
    /\ UNCHANGED <<progress_file, clock>>

(***************************************************************************)
(* The shard loop.                                                          *)
(***************************************************************************)
\* A cap that counts the shards fetched in this run, not the positions passed.
CapReachedByFetches(n) == max_shards # 0 /\ Len(fetched) >= max_shards

\* A cap test that lets one shard too many through.
CapReachedLate(n) == max_shards # 0 /\ n > max_shards + 1

CapReached(n) == max_shards # 0 /\ n > max_shards

\* A loop that, at the end of shard_combinations, waits for more shards.
LoopExhaustedWaiting ==
    /\ pc = "loop"
    /\ shard_num = total_possible
    /\ UNCHANGED vars

\* The for loop runs off the end of shard_combinations.
LoopExhausted ==
    /\ pc = "loop"
    /\ shard_num = total_possible
    /\ pc' = "returned"
    /\ wait_time' = <<>>
    /\ UNCHANGED <<hist_vars, other_vars, run_vars, ledger_vars, shard_num,
                   rate_limiter, wait_kind, disk_vars, stub, fetched, int_pc,
                   streak>>

\* "if max_shards and shard_num > max_shards: break"
LoopCapReached ==
    /\ pc = "loop"
    /\ shard_num < total_possible
    /\ CapReached(shard_num + 1)
    /\ shard_num' = shard_num + 1
    /\ pc' = "returned"
    /\ wait_time' = <<>>
    /\ UNCHANGED <<hist_vars, other_vars, run_vars, ledger_vars, rate_limiter,
                   wait_kind, disk_vars, stub, fetched, int_pc, streak>>

\* A skip that tells the limiter of an error.
LoopSkipSignalling ==
    /\ pc = "loop"
    /\ shard_num < total_possible
    /\ ~CapReached(shard_num + 1)
    /\ ShardKey(shard_combinations[shard_num + 1]) \in completed_shards
    /\ shard_num' = shard_num + 1
    /\ rate_limiter' = RecordError(rate_limiter)
    /\ UNCHANGED <<hist_vars, other_vars, pc, run_vars, ledger_vars,
                   wait_kind, wait_time, disk_vars, stub, fetched, int_pc,
                   streak>>

\* "if shard_key in completed_shards: continue"
LoopSkip ==
    /\ pc = "loop"
    /\ shard_num < total_possible
    /\ ~CapReached(shard_num + 1)
    /\ ShardKey(shard_combinations[shard_num + 1]) \in completed_shards
    /\ shard_num' = shard_num + 1
    /\ UNCHANGED <<hist_vars, other_vars, pc, run_vars, ledger_vars,
                   rate_limiter, wait_kind, wait_time, disk_vars, stub,
                   fetched, int_pc, streak>>

\* The call of scrape_shard_api_only is made: the shard is in flight.
LoopFetch ==
    /\ pc = "loop"
    /\ shard_num < total_possible
    /\ ~CapReached(shard_num + 1)
    /\ ShardKey(shard_combinations[shard_num + 1]) \notin completed_shards
    /\ shard_num' = shard_num + 1
    /\ fetched' = Append(fetched, shard_num + 1)
    /\ pc' = "fetching"
    /\ wait_time' = <<>>
    /\ UNCHANGED <<hist_vars, other_vars, run_vars, ledger_vars, rate_limiter,
                   wait_kind, disk_vars, stub, int_pc, streak>>

\* A loop that an empty-handed extractor ends: the error is signalled and the
\* process dies.
FetchReturnFatal ==
    /\ pc = "fetching"
    /\ LET shard == shard_combinations[shard_num]
           shard_jobs == scrape_shard_api_only(api_session, shard)
       IN /\ rate_limiter' = IF shard_jobs # <<>>
                             THEN RecordSuccess(rate_limiter)
                             ELSE RecordError(rate_limiter)
          /\ streak' = IF shard_jobs # <<>> THEN streak + 1 ELSE 0
          /\ SetLedger(MergeShard(Ledger, shard, shard_num, shard_jobs))
          /\ pc' = IF shard_jobs = <<>> THEN "interrupted"
                   ELSE IF shard_num % SAVE_INTERVAL = 0 THEN "saving"
                   ELSE "sleeping"
    /\ UNCHANGED <<hist_vars, other_vars, run_vars, shard_num, wait_kind,
                   wait_time, disk_vars, stub, fetched, int_pc>>

\* scrape_shard_api_only returns; the limiter is told, the shard is merged and
\* marked completed; then save_progress every SAVE_INTERVAL shards.
FetchReturn ==
    /\ pc = "fetching"
    /\ LET shard == shard_combinations[shard_num]
           shard_jobs == scrape_shard_api_only(api_session, shard)
       IN /\ rate_limiter' = IF shard_jobs # <<>>
                             THEN RecordSuccess(rate_limiter)
                             ELSE RecordError(rate_limiter)
          /\ streak' = IF shard_jobs # <<>> THEN streak + 1 ELSE 0
          /\ SetLedger(MergeShard(Ledger, shard, shard_num, shard_jobs))
    /\ pc' = IF shard_num % SAVE_INTERVAL = 0 THEN "saving" ELSE "sleeping"
    /\ UNCHANGED <<hist_vars, other_vars, run_vars, shard_num, wait_kind,
                   wait_time, disk_vars, stub, fetched, int_pc>>

\* save_progress: open(..., 'w') creates or truncates the file.
SaveOpen ==
    /\ pc = "saving"
    /\ clock' = clock + 1
    /\ progress_file' = [exists |-> TRUE, written |-> 0, data |-> BlankProgress]
    /\ pc' = "writing"
    /\ UNCHANGED <<hist_vars, other_vars, run_vars, ledger_vars, shard_num,
                   rate_limiter, wait_kind, wait_time, json_file, stub,
                   fetched, int_pc, streak>>

\* save_progress: json.dump writes the next key; after the last one the file
\* is closed and the loop goes on.
SaveWrite ==
    /\ pc = "writing"
    /\ LET k == progress_file.written + 1
           key == PROGRESS_KEYS[k]
           progress_data == ProgressData(all_jobs, shard_results,
                                shard_mappings, SetToList(completed_shards),
                                clock)
       IN /\ progress_file' =
                 [progress_file EXCEPT !.written = k,
                                       !.data[key] = progress_data[key]]
          /\ pc' = IF k = Len(PROGRESS_KEYS) THEN "sleeping" ELSE "writing"
    /\ UNCHANGED <<hist_vars, other_vars, run_vars, ledger_vars, shard_num,
                   rate_limiter, wait_kind, wait_time, json_file, clock, stub,
                   fetched, int_pc, streak>>

\* "Adaptive rate limiting": wait_time is drawn from the limiter as the
\* signal of this shard left it, then time.sleep(wait_time).
Sleep ==
    /\ pc = "sleeping"
    /\ wait_kind' = IF shard_num % BREAK_INTERVAL = 0 THEN "break" ELSE "delay"
    /\ \E v \in PacingDelays(rate_limiter, shard_num) : wait_time' = <<v>>
    /\ pc' = "loop"
    /\ UNCHANGED <<hist_vars, other_vars, run_vars, ledger_vars, shard_num,
                   rate_limiter, disk_vars, stub, fetched, int_pc, streak>>

\* main() after scrape_all_shards_api_only returned: the jobs file is written
\* (in one step: nothing in this program reads it back).
MainSaveResults ==
    /\ pc = "returned"
    /\ json_file' = [exists |-> TRUE, jobs |-> all_jobs]
    /\ pc' = "done"
    /\ UNCHANGED <<hist_vars, other_vars, run_vars, ledger_vars, shard_num,
                   rate_limiter, wait_kind, wait_time, progress_file, clock,
                   stub, fetched, int_pc, streak>>

\* KeyboardInterrupt: neither scrape_all_shards_api_only nor main() catches it;
\* the process ends with what is on disk as it is.  The variables of the dead
\* process keep their last values; a sleep it was in is over.
Interrupt ==
    /\ pc \in Running
    /\ int_pc' = pc
    /\ pc' = "interrupted"
    /\ wait_time' = <<>>
    /\ UNCHANGED <<hist_vars, other_vars, run_vars, ledger_vars, shard_num,
                   rate_limiter, wait_kind, disk_vars, stub, fetched, streak>>

Next ==
    \/ \E ms \in MaxShardsArgs, ok \in BOOLEAN : StartFresh(ms, ok)
    \/ \E ms \in MaxShardsArgs, ok \in BOOLEAN : StartResume(ms, ok)
    \/ \E ms \in MaxShardsArgs : StartResumeTruncated(ms)
    \/ LoopExhausted
    \/ LoopCapReached
    \/ LoopSkip
    \/ LoopFetch
    \/ FetchReturn
    \/ SaveOpen
    \/ SaveWrite
    \/ Sleep
    \/ MainSaveResults
    \/ Interrupt

Spec == Init /\ [][Next]_vars

\* Runs without --resume only, with a valid session or none, under caps
\* below, inside and beyond the shard list.
FreshMaxShardsArgs == {1, 5, total_possible + 1}

NextFresh ==
    \/ \E ms \in FreshMaxShardsArgs, ok \in BOOLEAN : StartFresh(ms, ok)
    \/ LoopExhausted
    \/ LoopCapReached
    \/ LoopFetch
    \/ FetchReturn
    \/ SaveOpen
    \/ SaveWrite
    \/ Sleep
    \/ MainSaveResults
    \/ Interrupt

SpecFresh == Init /\ [][NextFresh]_vars

\* The same runs left alone by the user: no KeyboardInterrupt.  The process,
\* once started, goes from one statement to the next until main() returns.
NextUnattended ==
    \/ \E ms \in FreshMaxShardsArgs, ok \in BOOLEAN : StartFresh(ms, ok)
    \/ LoopExhausted
    \/ LoopCapReached
    \/ LoopFetch
    \/ FetchReturn
    \/ SaveOpen
    \/ SaveWrite
    \/ Sleep
    \/ MainSaveResults

SpecUnattended == Init /\ [][NextUnattended]_vars /\ WF_vars(NextUnattended)

(***************************************************************************)
(* The rate limiter on its own: a default AdaptiveRateLimiter taking any    *)
(* sequence of record_success and record_error calls.                       *)
(***************************************************************************)
Calls == rate_limiter.success_count + rate_limiter.error_count

record_success ==
    /\ Calls < MaxCalls
    /\ rate_limiter' = RecordSuccess(rate_limiter)
    /\ streak' = streak + 1
    /\ window' = Append(IF Len(window) < 3 THEN window ELSE Tail(window),
                        rate_limiter.current_delay)
    /\ last_delay' = <<>>
    /\ UNCHANGED <<other_vars, pc, run_vars, ledger_vars, shard_num,
                   wait_kind, wait_time, disk_vars, stub, fetched, int_pc>>

record_error ==
    /\ Calls < MaxCalls
    /\ rate_limiter' = RecordError(rate_limiter)
    /\ streak' = 0
    /\ window' = <<>>
    /\ last_delay' = <<>>
    /\ UNCHANGED <<other_vars, pc, run_vars, ledger_vars, shard_num,
                   wait_kind, wait_time, disk_vars, stub, fetched, int_pc>>

get_delay ==
    /\ \E v \in GetDelay(rate_limiter) : last_delay' = <<v>>
    /\ UNCHANGED <<other_vars, pc, run_vars, ledger_vars, shard_num,
                   rate_limiter, wait_kind, wait_time, disk_vars, stub,
                   fetched, int_pc, streak, window>>

InitGovernor == Init /\ stub = [w \in Range(WT_CODES) |-> <<>>]
NextGovernor == record_success \/ record_error \/ get_delay
SpecGovernor == InitGovernor /\ [][NextGovernor]_vars

(***************************************************************************)
(* get_job_details_api, in its two versions: the API-only scraper's         *)
(* (src/linkedin_scraper/src/linkedin_scraper.py) and the optimized         *)
(* scraper's (src/linkedin_scraper/linkedin_scraper.py).                    *)
(*                                                                         *)
(* An optional JSON value is <<>> when the key is absent or null (the code  *)
(* reads it with dict.get and cannot tell the two apart) and <<v>> when it  *)
(* is v.  Timestamps are in seconds (the source's are in milliseconds).     *)
(* Of the date fields only listedAt is in the modelled postings.            *)
(***************************************************************************)
Variants == {"api_only", "optimized"}

\* suspicious_timestamps, each as the epoch time its ISO string stands for.
SUSPICIOUS_TIMESTAMPS ==
    {1755695092, 1755760059, 1755712733, 1755824552, 1755770492, 1755760060,
     1755695091, 1755824555}

\* The timestamps tried: zero, a suspicious one and an ordinary one.
Timestamps == {<<>>, <<0>>, <<1755695092>>, <<1755700000>>}
Markers == {<<>>, <<TRUE>>, <<FALSE>>}

\* What the detail request of a posting resolves to: ok is FALSE when the
\* request fails (status other than 200, or an exception).
JobData ==
    {jd \in [ok : BOOLEAN, listedAt : Timestamps,
              originalListedAt : Timestamps, repostedJobPosting : Markers,
              repostedJob : {<<>>, <<"urn">>}] :
        jd.ok \/ (/\ jd.listedAt = <<>>
                  /\ jd.originalListedAt = <<>>
                  /\ jd.repostedJobPosting = <<>>
                  /\ jd.repostedJob = <<>>)}

\* Python's truth value of an optional number: None and 0 are falsy.
Truthy(x) == x # <<>> /\ x[1] # 0

\* "Enhanced repost detection using timestamp comparison" (API-only).
IsRepostApiOnly(jd) ==
    IF Truthy(jd.listedAt) /\ Truthy(jd.originalListedAt)
    THEN jd.listedAt[1] # jd.originalListedAt[1]
    ELSE jd.repostedJobPosting = <<TRUE>>

\* posted_dt: the first date field holding a number.
PostedDt(jd) == jd.listedAt

\* "Improved repost detection" and "Additional repost detection based on
\* suspicious posting patterns" (optimized).
IsRepostOptimized(jd) ==
    \/ jd.repostedJobPosting # <<>>
    \/ jd.originalListedAt # <<>>
    \/ jd.repostedJob # <<>>
    \/ (PostedDt(jd) # <<>> /\ PostedDt(jd)[1] \in SUSPICIOUS_TIMESTAMPS)

\* The record get_job_details_api returns, as <<record>>, or <<>> for None.
get_job_details_api(v, job_id, jd) ==
    IF ~jd.ok THEN <<>>
    ELSE <<[job_id |-> job_id,
            is_repost |-> IF v = "api_only" THEN IsRepostApiOnly(jd)
                          ELSE IsRepostOptimized(jd),
            source |-> "api"]>>

\* One call of get_job_details_api on a posting.
GetJobDetails ==
    /\ pc = "idle"
    /\ job_details' = get_job_details_api(variant, "101", job_data)
    /\ pc' = "details_returned"
    /\ UNCHANGED <<run_vars, ledger_vars, shard_num, rate_limiter, wait_kind,
                   wait_time, disk_vars, stub, fetched, int_pc, streak,
                   hist_vars, extractor_vars, job_data, site, pool_vars,
                   generator_vars,
                   scroll_vars, scheduled_vars>>

InitDetails ==
    /\ HarvestInit
    /\ stub = [w \in Range(WT_CODES) |-> <<>>]
    /\ variant \in Variants
    /\ ExtractorIdle
    /\ job_data \in JobData
    /\ job_details = <<>>
    /\ SiteIdle
    /\ PoolIdle
    /\ GeneratorIdle
    /\ ScrollIdle
    /\ ScheduledIdle

NextDetails == GetJobDetails
SpecDetails == InitDetails /\ [][NextDetails]_vars

(***************************************************************************)
(* The extraction of one shard: get_jobs_api's page loop (the same in both  *)
(* scrapers), then scrape_shard_api_only or scrape_shard_optimized with     *)
(* get_jobs_dom_smart.                                                      *)
(*                                                                         *)
(* The listing endpoint is stubbed: it holds `full` pages of exactly count  *)
(* elements, of which `kept` per page become records (the element names a   *)
(* job id, its detail request succeeds, its company is not blacklisted),    *)
(* and answers any request past them with `last`.  Job ids are the          *)
(* positions of the elements in the listing.  Records are kept in listing   *)
(* order.                                                                   *)
(***************************************************************************)
StatusNot200 == [kind |-> "status", n |-> 0, kept |-> 0]
RequestRaises == [kind |-> "exception", n |-> 0, kept |-> 0]
Elements(n, kept) == [kind |-> "ok", n |-> n, kept |-> kept]

\* The answers that end the page loop: an error, or a page that is not full.
LastResponses(c) ==
    {StatusNot200, RequestRaises} \cup
        UNION {{Elements(n, k) : k \in 0..n} : n \in (0..(c + 1)) \ {c}}

Listings(c) == [full : 0..MaxFull, kept : 0..c, last : LastResponses(c)]

\* session.get(url) for the listing page at offset start.
Response(l, c, start) ==
    IF start \div c < l.full THEN Elements(c, l.kept) ELSE l.last

\* The detail response of a posting that carries no repost signal.
PlainJobData ==
    [ok |-> TRUE, listedAt |-> <<1755700000>>, originalListedAt |-> <<>>,
     repostedJobPosting |-> <<>>, repostedJob |-> <<>>]

\* The rendered search page: it fails to load (any exception), or shows
\* `cards` job cards that have an id and a company that is not blacklisted.
NoDomPage == [kind |-> "none", cards |-> 0]
DomPages ==
    {[kind |-> "error", cards |-> 0]}
        \cup {[kind |-> "ok", cards |-> n] : n \in 0..MaxCards}

\* A get_jobs_dom_smart whose records claim to be reposts.
DomJobRepost(job_id) == [job_id |-> job_id, is_repost |-> TRUE, source |-> "dom"]

\* The record get_jobs_dom_smart appends for a card.
DomJob(job_id) == [job_id |-> job_id, is_repost |-> FALSE, source |-> "dom"]

\* get_jobs_dom_smart: [] on "No jobs found" and on any exception.
get_jobs_dom_smart(d) ==
    IF d.kind # "ok" THEN <<>>
    ELSE [i \in 1..Min(d.cards, DOM_CARD_LIMIT) |-> DomJob(i)]

\* A page loop without its safety limit.
WhileTrue(p) == TRUE

\* "while page < max_pages"
WhileGuard(p) == p < MAX_PAGES_PER_SHARD

\* A page loop that goes on after any page that is not empty.
ContinueUnlessEmpty(n, c) == n > 0

\* "elif len(elements) == count": the page was full, fetch the next one.
ContinuePaging(n, c) == n = c

\* The values of the harvesting engine's variables, which nothing here changes.
harvest_vars == <<run_vars, ledger_vars, shard_num, rate_limiter, wait_kind, wait_time,
                  disk_vars, stub, fetched, int_pc, streak, hist_vars>>

\* scrape_shard_* is called and calls get_jobs_api.
ScrapeShard ==
    /\ pc = "idle"
    /\ pc' = "paging"
    /\ page' = 0
    /\ api_jobs' = <<>>
    /\ UNCHANGED <<harvest_vars, variant, count, listing, dom, requests,
                   dom_calls, shard_output, details_vars, site, pool_vars,
                   generator_vars,
                   scroll_vars, scheduled_vars>>

\* A page loop that throws away what it has when a listing request fails.
ListingRequestDiscarding ==
    /\ pc = "paging"
    /\ WhileGuard(page)
    /\ LET start == page * count
           response == Response(listing, count, start)
           elements == IF response.kind = "ok" THEN response.n ELSE 0
           page_jobs == [i \in 1..response.kept |->
                            get_job_details_api(variant, start + i,
                                                PlainJobData)[1]]
       IN /\ requests' = Append(requests, start)
          /\ api_jobs' = IF elements > 0 THEN api_jobs \o page_jobs
                         ELSE IF response.kind = "ok" THEN api_jobs
                         ELSE <<>>
          /\ IF elements > 0 /\ ContinuePaging(elements, count)
             THEN page' = page + 1 /\ pc' = "paging"
             ELSE page' = page /\ pc' = "api_returned"
    /\ UNCHANGED <<harvest_vars, variant, count, listing, dom, dom_calls,
                   shard_output, details_vars, site, pool_vars,
                   generator_vars,
                   scroll_vars, scheduled_vars>>

\* One pass of the while loop: the listing request of the page and what its
\* answer leads to.
ListingRequest ==
    /\ pc = "paging"
    /\ WhileGuard(page)
    /\ LET start == page * count
           response == Response(listing, count, start)
           elements == IF response.kind = "ok" THEN response.n ELSE 0
           page_jobs == [i \in 1..response.kept |->
                            get_job_details_api(variant, start + i,
                                                PlainJobData)[1]]
       IN /\ requests' = Append(requests, start)
          /\ api_jobs' = IF elements > 0 THEN api_jobs \o page_jobs
                         ELSE api_jobs
          /\ IF elements > 0 /\ ContinuePaging(elements, count)
             THEN page' = page + 1 /\ pc' = "paging"
             ELSE page' = page /\ pc' = "api_returned"
    /\ UNCHANGED <<harvest_vars, variant, count, listing, dom, dom_calls,
                   shard_output, details_vars, site, pool_vars,
                   generator_vars,
                   scroll_vars, scheduled_vars>>

\* The while condition fails: max_pages pages were fetched.
WhileExit ==
    /\ pc = "paging"
    /\ ~WhileGuard(page)
    /\ pc' = "api_returned"
    /\ UNCHANGED <<harvest_vars, extractor_vars, details_vars, site,
                   pool_vars, generator_vars,
                   scroll_vars, scheduled_vars>>

\* scrape_shard_api_only: "if api_jobs: return api_jobs else: return []".
ApiOnlyReturn ==
    /\ pc = "api_returned"
    /\ variant = "api_only"
    /\ shard_output' = api_jobs
    /\ pc' = "shard_returned"
    /\ UNCHANGED <<harvest_vars, variant, count, listing, dom, page, requests,
                   api_jobs, dom_calls, details_vars, site, pool_vars,
                   generator_vars,
                   scroll_vars, scheduled_vars>>

\* The orchestrator of the API-only scraper takes what scrape_shard_api_only
\* returned: "if shard_jobs: rate_limiter.record_success(...) else:
\* rate_limiter.record_error()".
ShardSignal ==
    /\ pc = "shard_returned"
    /\ variant = "api_only"
    /\ rate_limiter' = IF shard_output # <<>>
                       THEN RecordSuccess(rate_limiter)
                       ELSE RecordError(rate_limiter)
    /\ pc' = "signalled"
    /\ UNCHANGED <<run_vars, ledger_vars, shard_num, wait_kind, wait_time,
                   disk_vars, stub, fetched, int_pc, streak, hist_vars,
                   extractor_vars, details_vars, site, pool_vars,
                   generator_vars, scroll_vars, scheduled_vars>>

\* scrape_shard_optimized: "if api_jobs: return api_jobs".
OptimizedApiReturn ==
    /\ pc = "api_returned"
    /\ variant = "optimized"
    /\ api_jobs # <<>>
    /\ shard_output' = api_jobs
    /\ pc' = "shard_returned"
    /\ UNCHANGED <<harvest_vars, variant, count, listing, dom, page, requests,
                   api_jobs, dom_calls, details_vars, site, pool_vars,
                   generator_vars,
                   scroll_vars, scheduled_vars>>

\* scrape_shard_optimized: "else: ... dom_jobs = get_jobs_dom_smart(...)".
OptimizedDomFallback ==
    /\ pc = "api_returned"
    /\ variant = "optimized"
    /\ api_jobs = <<>>
    /\ dom_calls' = dom_calls + 1
    /\ shard_output' = get_jobs_dom_smart(dom)
    /\ pc' = "shard_returned"
    /\ UNCHANGED <<harvest_vars, variant, count, listing, dom, page, requests,
                   api_jobs, details_vars, site, pool_vars, generator_vars,
                   scroll_vars, scheduled_vars>>

InitExtractor ==
    /\ HarvestInit
    /\ stub = [w \in Range(WT_CODES) |-> <<>>]
    /\ variant \in Variants
    /\ count \in 1..MaxCount
    /\ listing \in Listings(count)
    /\ dom \in IF variant = "optimized" THEN DomPages ELSE {NoDomPage}
    /\ page = 0
    /\ requests = <<>>
    /\ api_jobs = <<>>
    /\ dom_calls = 0
    /\ shard_output = <<>>
    /\ DetailsIdle
    /\ SiteIdle
    /\ PoolIdle
    /\ GeneratorIdle
    /\ ScrollIdle
    /\ ScheduledIdle

NextExtractor ==
    \/ ScrapeShard
    \/ ListingRequest
    \/ WhileExit
    \/ ApiOnlyReturn
    \/ ShardSignal
    \/ OptimizedApiReturn
    \/ OptimizedDomFallback

SpecExtractor == InitExtractor /\ [][NextExtractor]_vars

\* The extractor is one sequential thread whose requests have timeouts: a
\* step that can be taken is taken.
SpecExtractorFair == SpecExtractor /\ WF_vars(NextExtractor)

(***************************************************************************)
(* scrape_all_shards_optimized (src/linkedin_scraper/linkedin_scraper.py):  *)
(* the optimized scraper's shard loop.  It has the locals of the API-only   *)
(* loop under the same names (all_jobs, shard_results, shard_mappings,      *)
(* shard_num, max_shards) and they are kept in the same variables.          *)
(*                                                                         *)
(* The site is stubbed: for the shards of a workplace type, what            *)
(* get_jobs_api returns and what get_jobs_dom_smart would return.           *)
(***************************************************************************)
\* The detail response of a posting carrying the explicit repost marker.
RepostedJobData ==
    [ok |-> TRUE, listedAt |-> <<1755700000>>, originalListedAt |-> <<>>,
     repostedJobPosting |-> <<TRUE>>, repostedJob |-> <<>>]

ApiJob(job_id, jd) == get_job_details_api("optimized", job_id, jd)[1]

ApiOutputs ==
    {<<>>,
     <<ApiJob("101", RepostedJobData)>>,
     <<ApiJob("101", PlainJobData), ApiJob("101", PlainJobData)>>,
     <<ApiJob("101", PlainJobData), ApiJob("102", RepostedJobData)>>}

DomOutputs == {<<>>, <<DomJob("101")>>, <<DomJob("103"), DomJob("103")>>}

Sites == [Range(WT_CODES) -> [api : ApiOutputs, dom : DomOutputs]]

\* scrape_shard_optimized, from what the two paths yield for the shard.
scrape_shard_optimized(paths) ==
    IF paths.api # <<>> THEN paths.api ELSE paths.dom

\* "Track shard mappings for each job": one entry per job of shard_jobs.
RECURSIVE TrackMappings(_, _, _, _)
TrackMappings(mappings, jobs, shard, n) ==
    IF jobs = <<>> THEN mappings
    ELSE LET job_id == Head(jobs).job_id
             old == IF job_id \in DOMAIN mappings THEN mappings[job_id]
                    ELSE <<>>
             entry == [shard_key |-> ShardKey(shard), shard_num |-> n,
                       labels |-> Labels(shard)]
         IN TrackMappings(DictSet(mappings, job_id, Append(old, entry)),
                          Tail(jobs), shard, n)

\* "Add jobs (with deduplication)": existing_ids is computed once, before
\* the jobs of the shard are filtered.
AddJobs(jobs, new) ==
    LET existing_ids == {jobs[i].job_id : i \in DOMAIN jobs}
        new_jobs == SelectSeq(new, LAMBDA job : job.job_id \notin existing_ids)
    IN jobs \o new_jobs

\* The --max-shards values tried: absent, a multiple of len(WT_CODES), and 5.
OptimizedMaxShardsArgs == {0, 3, 5}

\* "if max_shards and shard_num >= max_shards: break", after the innermost
\* loop has run to its end.
OuterBreak ==
    /\ shard_num > 0
    /\ shard_num % Len(WT_CODES) = 0
    /\ max_shards # 0
    /\ shard_num >= max_shards

optimized_unchanged ==
    <<resume, api_session, run_no, prev_run, completed_shards, seen_job_ids,
      rate_limiter, disk_vars, stub, fetched, int_pc, streak, hist_vars,
      variant, extractor_vars, details_vars, site, pool_vars, generator_vars,
      scroll_vars, scheduled_vars>>

\* scrape_all_shards_optimized is called.
OptimizedStart(ms) ==
    /\ pc = "idle"
    /\ max_shards' = ms
    /\ all_jobs' = <<>>
    /\ shard_results' = EmptyDict
    /\ shard_mappings' = EmptyDict
    /\ shard_num' = 0
    /\ pc' = "shards"
    /\ UNCHANGED <<optimized_unchanged, wait_kind, wait_time>>

\* The loops end: the shard list is exhausted, or the cap is met at the end
\* of the innermost loop.
OptimizedLoopEnd ==
    /\ pc = "shards"
    /\ shard_num = total_possible \/ OuterBreak
    /\ pc' = "shards_returned"
    /\ UNCHANGED <<optimized_unchanged, max_shards, all_jobs, shard_results,
                   shard_mappings, shard_num, wait_kind, wait_time>>

\* "if max_shards and shard_num > max_shards: break" inside the innermost
\* loop, and the breaks of the outer loops that follow it.
OptimizedCapReached ==
    /\ pc = "shards"
    /\ shard_num < total_possible
    /\ ~OuterBreak
    /\ CapReached(shard_num + 1)
    /\ shard_num' = shard_num + 1
    /\ pc' = "shards_returned"
    /\ UNCHANGED <<optimized_unchanged, max_shards, all_jobs, shard_results,
                   shard_mappings, wait_kind, wait_time>>

\* One pass of the innermost loop: the shard is scraped, tracked and merged,
\* then time.sleep.
OptimizedShard ==
    /\ pc = "shards"
    /\ shard_num < total_possible
    /\ ~OuterBreak
    /\ ~CapReached(shard_num + 1)
    /\ LET n == shard_num + 1
           shard == shard_combinations[n]
           jobs == scrape_shard_optimized(site[shard[3]])
           result == [exp_level |-> shard[1], job_type |-> shard[2],
                      workplace_type |-> shard[3], job_count |-> Len(jobs),
                      labels |-> Labels(shard)]
       IN /\ shard_num' = n
          /\ shard_results' = DictSet(shard_results, ShardKey(shard), result)
          /\ shard_mappings' = TrackMappings(shard_mappings, jobs, shard, n)
          /\ all_jobs' = AddJobs(all_jobs, jobs)
          /\ wait_kind' = IF n % LONG_WAIT_INTERVAL = 0 THEN "break"
                          ELSE "delay"
    /\ UNCHANGED <<optimized_unchanged, max_shards, pc, wait_time>>

InitOptimized ==
    /\ HarvestInit
    /\ stub = [w \in Range(WT_CODES) |-> <<>>]
    /\ variant = "optimized"
    /\ ExtractorIdle
    /\ DetailsIdle
    /\ site \in Sites
    /\ PoolIdle
    /\ GeneratorIdle
    /\ ScrollIdle
    /\ ScheduledIdle

NextOptimized ==
    \/ \E ms \in OptimizedMaxShardsArgs : OptimizedStart(ms)
    \/ OptimizedLoopEnd
    \/ OptimizedCapReached
    \/ OptimizedShard

SpecOptimized == InitOptimized /\ [][NextOptimized]_vars

(***************************************************************************)
(* One shard from the listing's job ids to the ledger: the detail fetches   *)
(* of get_job_details_concurrent (a worker per job id, results taken in     *)
(* completion order) and the merge of one loop iteration in the API-only    *)
(* scraper; the sequential detail fetches, the rendered-page fallback and   *)
(* the merge in the optimized one.                                          *)
(***************************************************************************)
\* Company names as the detail endpoint or a job card may give them.
CompanyNames ==
    {<<>>, NA,
     <<"A", "c", "m", "e">>,
     <<"L", "e", "n", "s", "a">>,
     <<"M", "A", "J", "O", "R", "A">>,
     <<"T", "a", "l", "e", "n", "t", " ", "C", "o", "m">>}

PostingIds == <<"101", "102", "103", "104">>

\* What get_job_details_api returns for a job id: <<>> for None (the request
\* failed, whatever was raised is swallowed), else the record's company name.
DetailResults == {<<>>} \cup {<<name>> : name \in CompanyNames}

\* The job ids of a listing page with what each resolves to.
Candidates ==
    UNION {{[i \in 1..n |-> [job_id |-> PostingIds[i], details |-> d[i]]] :
               d \in [1..n -> DetailResults]} : n \in 0..MaxCandidates}

\* The job cards of a rendered page, each with an id and a company text.
Cards ==
    UNION {{[i \in 1..n |-> [job_id |-> PostingIds[i], company_name |-> c[i]]] :
               c \in [1..n -> CompanyNames]} : n \in 0..MaxCards}

\* "if job_details and not is_blacklisted(job_details.get('company_name', ''))"
Kept(candidate) ==
    /\ candidate.details # <<>>
    /\ ~is_blacklisted(candidate.details[1])

JobDetails(candidate) ==
    [job_id |-> candidate.job_id, company_name |-> candidate.details[1]]

\* The optimized get_jobs_api: one detail request after the other.
DetailsSequential(cs) ==
    LET kept == SelectSeq(cs, Kept)
    IN [i \in DOMAIN kept |-> JobDetails(kept[i])]

\* get_jobs_dom_smart over the first 25 cards: "if is_blacklisted(
\* company_name): continue".
DomCards(cs) ==
    SelectSeq(SubSeq(cs, 1, Min(Len(cs), DOM_CARD_LIMIT)),
              LAMBDA card : ~is_blacklisted(card.company_name))

JobIdsOf(jobs) == [i \in DOMAIN jobs |-> jobs[i].job_id]

\* A pool that is left without waiting for its workers.
PoolLeftAtOnce(running, done) == TRUE

\* The end of "for future in as_completed(...)" and of the with block
\* (executor.shutdown(wait=True)): every future is done and was taken.
PoolJoined(running, done) == running = {} /\ done = {}

shard_unchanged ==
    <<run_vars, shard_num, wait_kind, wait_time, disk_vars, stub, fetched,
      int_pc, streak, hist_vars, details_vars, site, generator_vars, scroll_vars, scheduled_vars,
      variant,
      count, listing, dom, page, requests, api_jobs, dom_calls, candidates,
      cards>>

\* "if job_ids: page_jobs = get_job_details_concurrent(session, job_ids)":
\* every job id is submitted to the executor.
PoolSubmit ==
    /\ pc = "idle"
    /\ variant = "api_only"
    /\ candidates # <<>>
    /\ in_flight' = DOMAIN candidates
    /\ pc' = "pool"
    /\ UNCHANGED <<shard_unchanged, ledger_vars, rate_limiter, finished,
                   collected, shard_output>>

\* The listing held no job id: no pool, no job.
PoolSkipped ==
    /\ pc = "idle"
    /\ variant = "api_only"
    /\ candidates = <<>>
    /\ shard_output' = <<>>
    /\ pc' = "extracted"
    /\ UNCHANGED <<shard_unchanged, ledger_vars, rate_limiter, in_flight,
                   finished, collected>>

\* A worker's fetch_single_job returns: its future is done.
WorkerReturn(i) ==
    /\ i \in in_flight
    /\ in_flight' = in_flight \ {i}
    /\ finished' = finished \cup {i}
    /\ UNCHANGED <<shard_unchanged, pc, ledger_vars, rate_limiter, collected,
                   shard_output>>

\* A control thread that keeps the job of the first future handed to it and
\* drops the jobs of the later ones.
CollectFirstOnly(i) ==
    /\ pc = "pool"
    /\ i \in finished
    /\ finished' = finished \ {i}
    /\ collected' = IF Kept(candidates[i]) /\ collected = <<>>
                    THEN Append(collected, JobDetails(candidates[i]))
                    ELSE collected
    /\ UNCHANGED <<shard_unchanged, pc, ledger_vars, rate_limiter, in_flight,
                   shard_output>>

\* as_completed hands a done future to the control thread, which keeps its
\* job or drops it.
Collect(i) ==
    /\ pc = "pool"
    /\ i \in finished
    /\ finished' = finished \ {i}
    /\ collected' = IF Kept(candidates[i])
                    THEN Append(collected, JobDetails(candidates[i]))
                    ELSE collected
    /\ UNCHANGED <<shard_unchanged, pc, ledger_vars, rate_limiter, in_flight,
                   shard_output>>

\* get_job_details_concurrent returns jobs, and with it get_jobs_api and
\* scrape_shard_api_only.
PoolExit ==
    /\ pc = "pool"
    /\ PoolJoined(in_flight, finished)
    /\ shard_output' = collected
    /\ pc' = "extracted"
    /\ UNCHANGED <<shard_unchanged, ledger_vars, rate_limiter, in_flight,
                   finished, collected>>

\* The iteration of scrape_all_shards_api_only after the extractor returned:
\* the limiter is told, the shard is merged and marked completed.
ShardMerge ==
    /\ pc = "extracted"
    /\ variant = "api_only"
    /\ LET shard == shard_combinations[1]
       IN /\ rate_limiter' = IF shard_output # <<>>
                             THEN RecordSuccess(rate_limiter)
                             ELSE RecordError(rate_limiter)
          /\ SetLedger(MergeShard(Ledger, shard, 1, JobIdsOf(shard_output)))
    /\ pc' = "merged"
    /\ UNCHANGED <<shard_unchanged, pool_vars, shard_output>>

\* scrape_shard_optimized: the API jobs if there are any, else the cards of
\* the rendered page.
OptimizedExtract ==
    /\ pc = "idle"
    /\ variant = "optimized"
    /\ LET jobs == DetailsSequential(candidates)
       IN shard_output' = IF jobs # <<>> THEN jobs ELSE DomCards(cards)
    /\ pc' = "extracted"
    /\ UNCHANGED <<shard_unchanged, ledger_vars, rate_limiter, in_flight,
                   finished, collected>>

\* The iteration of scrape_all_shards_optimized after the extractor returned.
OptimizedMerge ==
    /\ pc = "extracted"
    /\ variant = "optimized"
    /\ LET shard == shard_combinations[1]
           result == [exp_level |-> shard[1], job_type |-> shard[2],
                      workplace_type |-> shard[3],
                      job_count |-> Len(shard_output), labels |-> Labels(shard)]
       IN /\ shard_results' = DictSet(shard_results, ShardKey(shard), result)
          /\ shard_mappings' =
                 TrackMappings(shard_mappings, shard_output, shard, 1)
          /\ all_jobs' = AddJobs(all_jobs, shard_output)
    /\ pc' = "merged"
    /\ UNCHANGED <<shard_unchanged, pool_vars, shard_output, rate_limiter,
                   completed_shards, seen_job_ids>>

InitShard ==
    /\ HarvestInit
    /\ stub = [w \in Range(WT_CODES) |-> <<>>]
    /\ variant \in Variants
    /\ count = 0
    /\ listing = <<>>
    /\ dom = <<>>
    /\ page = 0
    /\ requests = <<>>
    /\ api_jobs = <<>>
    /\ dom_calls = 0
    /\ shard_output = <<>>
    /\ DetailsIdle
    /\ SiteIdle
    /\ candidates \in Candidates
    /\ cards \in IF variant = "optimized" THEN Cards ELSE {<<>>}
    /\ in_flight = {}
    /\ finished = {}
    /\ collected = <<>>
    /\ GeneratorIdle
    /\ ScrollIdle
    /\ ScheduledIdle

NextShard ==
    \/ PoolSubmit
    \/ PoolSkipped
    \/ \E i \in DOMAIN candidates : WorkerReturn(i)
    \/ \E i \in DOMAIN candidates : Collect(i)
    \/ PoolExit
    \/ ShardMerge
    \/ OptimizedExtract
    \/ OptimizedMerge

SpecShard == InitShard /\ [][NextShard]_vars

(***************************************************************************)
(* The shard generator on its own, over every choice of leading codes of    *)
(* the three lists (up to all 6 x 7 x 3), without and with a historical     *)
(* ordering; and the rank the hybrid scraper gives each shard.              *)
(***************************************************************************)
Prefixes(codes) == {SubSeq(codes, 1, n) : n \in 1..Len(codes)}

Facets ==
    [exp : Prefixes(ALL_EXP_CODES), jt : Prefixes(ALL_JT_CODES),
     wt : Prefixes(WT_CODES)]

\* The historical orderings tried: none, or one or two keys of the first
\* MaxNamed shards, in either order.
PriorityArgs(codes) ==
    LET default == generate_prioritized_shards(<<>>, codes)
        keys == {FormatKey(default[i]) :
                     i \in 1..Min(Len(default), MaxNamed)}
    IN {<<>>} \cup {<<k>> : k \in keys}
           \cup {km \in keys \X keys : km[1] # km[2]}

\* scrape_jobs of the hybrid scraper: "rank = e_idx * EJW + j_idx * EW +
\* w_idx", the indices counted from 0 by enumerate.
Rank(codes, e_idx, j_idx, w_idx) ==
    LET EW == Len(codes.wt)
        EJW == Len(codes.jt) * EW
    IN e_idx * EJW + j_idx * EW + w_idx

\* "shard_combinations = generate_prioritized_shards(priority_shards)"
Generate ==
    /\ pc = "idle"
    /\ generated' = <<generate_prioritized_shards(priority, facets)>>
    /\ pc' = "generated"
    /\ UNCHANGED <<run_vars, ledger_vars, shard_num, rate_limiter, wait_kind,
                   wait_time, disk_vars, stub, fetched, int_pc, streak,
                   hist_vars, extractor_vars, details_vars, site, pool_vars,
                   scroll_vars, scheduled_vars, facets, priority>>

InitGenerator ==
    /\ HarvestInit
    /\ stub = [w \in Range(WT_CODES) |-> <<>>]
    /\ variant = "api_only"
    /\ ExtractorIdle
    /\ DetailsIdle
    /\ SiteIdle
    /\ PoolIdle
    /\ facets \in Facets
    /\ priority \in PriorityArgs(facets)
    /\ generated = <<>>
    /\ ScrollIdle
    /\ ScheduledIdle

NextGenerator == Generate
SpecGenerator == InitGenerator /\ [][NextGenerator]_vars

(***************************************************************************)
(* scrape_jobs of the hybrid scraper (src/scraper): the three nested loops  *)
(* with the count of processed shards and its stop test, and the load of    *)
(* each shard's search page.                                                *)
(***************************************************************************)
\* What the load of a shard's first page comes to: job cards, the "no
\* results" banner, or an exception (a timeout waiting for the cards).
HybridOutcomes == {"cards", "no_results", "error"}

\* The max_shards values tried: 1 up to one more than there are shards.
HybridMaxShardsArgs == 1..(total_possible + 1)

hybrid_unchanged ==
    <<resume, api_session, all_jobs, shard_mappings, completed_shards,
      seen_job_ids, rate_limiter, wait_time, disk_vars, stub, run_no,
      prev_run, int_pc, streak, hist_vars, other_vars>>

\* scrape_jobs(driver, max_pages, max_shards) is called.
HybridStart(ms) ==
    /\ pc = "idle"
    /\ max_shards' = ms
    /\ shard_num' = 0
    /\ pc' = "shards"
    /\ UNCHANGED <<hybrid_unchanged, shard_results, fetched, wait_kind>>

\* The head of an iteration: register_shard, "processed_shards += 1", then
\* "if processed_shards >= max_shards: return".
HybridRegister ==
    /\ pc = "shards"
    /\ shard_num < total_possible
    /\ LET shard == shard_combinations[shard_num + 1]
       IN shard_results' =
              IF ShardKey(shard) \in DOMAIN shard_results THEN shard_results
              ELSE DictSet(shard_results, ShardKey(shard),
                           [rank |-> shard_num, sig |-> shard])
    /\ shard_num' = shard_num + 1
    /\ pc' = IF shard_num + 1 >= max_shards THEN "done" ELSE "loading"
    /\ UNCHANGED <<hybrid_unchanged, max_shards, fetched, wait_kind>>

\* driver.get of the shard's search page and what follows: the pages are
\* extracted and the pause between shards is taken, or the shard is left by
\* "continue" (no results, or an exception) without the pause.
HybridLoad ==
    /\ pc = "loading"
    /\ fetched' = Append(fetched, shard_num)
    /\ wait_kind' = IF stub[shard_combinations[shard_num][3]] = "cards"
                    THEN "delay" ELSE "none"
    /\ pc' = "shards"
    /\ UNCHANGED <<hybrid_unchanged, max_shards, shard_results, shard_num>>

\* The loops run off their ends.
HybridLoopEnd ==
    /\ pc = "shards"
    /\ shard_num = total_possible
    /\ pc' = "done"
    /\ UNCHANGED <<hybrid_unchanged, max_shards, shard_results, shard_num,
                   fetched, wait_kind>>

InitHybrid ==
    /\ pc = "idle"
    /\ max_shards = 0
    /\ resume = FALSE
    /\ api_session = None
    /\ all_jobs = <<>>
    /\ shard_results = EmptyDict
    /\ shard_mappings = EmptyDict
    /\ completed_shards = {}
    /\ seen_job_ids = {}
    /\ shard_num = 0
    /\ rate_limiter = NewRateLimiter
    /\ wait_kind = "none"
    /\ wait_time = <<>>
    /\ progress_file = NoFile
    /\ json_file = [exists |-> FALSE, jobs |-> <<>>]
    /\ clock = 0
    /\ stub \in [Range(WT_CODES) -> HybridOutcomes]
    /\ run_no = 0
    /\ prev_run = NoRun
    /\ fetched = <<>>
    /\ int_pc = "none"
    /\ streak = 0
    /\ window = <<>>
    /\ last_delay = <<>>
    /\ variant = "hybrid"
    /\ count = 0
    /\ listing = <<>>
    /\ dom = <<>>
    /\ page = 0
    /\ requests = <<>>
    /\ api_jobs = <<>>
    /\ dom_calls = 0
    /\ shard_output = <<>>
    /\ DetailsIdle
    /\ SiteIdle
    /\ PoolIdle
    /\ GeneratorIdle
    /\ ScrollIdle
    /\ ScheduledIdle

NextHybrid ==
    \/ \E ms \in HybridMaxShardsArgs : HybridStart(ms)
    \/ HybridRegister
    \/ HybridLoad
    \/ HybridLoopEnd

SpecHybrid == InitHybrid /\ [][NextHybrid]_vars

harvest_vars_but_pc ==
    <<run_vars, ledger_vars, shard_num, rate_limiter, wait_kind, wait_time,
      disk_vars, stub, fetched, int_pc, streak, hist_vars>>

(***************************************************************************)
(* progressive_scroll_and_load of the hybrid scraper: the pane's job cards  *)
(* are counted, the pane is scrolled, until the count has stopped rising or *)
(* max_attempts passes were made.  The page decides what each count is.     *)
(***************************************************************************)
\* A test that takes an unchanged count for new jobs.
GrewOrSame(current, previous) == current >= previous

\* "if current_count > previous_job_count"
Grew(current, previous) == current > previous

LastThree(seq) == SubSeq(seq, Max(1, Len(seq) - 2), Len(seq))

\* progressive_scroll_and_load(driver, pane) is called.
ScrollStart ==
    /\ pc = "idle"
    /\ pc' = "observe"
    /\ UNCHANGED <<harvest_vars_but_pc, extractor_vars, details_vars, site,
                   pool_vars, generator_vars, scroll_vars, scheduled_vars>>

\* The head of a pass: the cards are counted, the counters updated, and
\* "if stable_count >= 3: break".
ScrollObserve ==
    /\ pc = "observe"
    /\ \E c \in 0..MaxLoaded :
           /\ current_count' = c
           /\ previous_job_count' =
                  IF Grew(c, previous_job_count) THEN c ELSE previous_job_count
           /\ stable_count' =
                  IF Grew(c, previous_job_count) THEN 0 ELSE stable_count + 1
           /\ recent' = LastThree(Append(recent,
                             [grew |-> c > current_count, higher |-> c > highest]))
           /\ highest' = Max(highest, c)
    /\ pc' = IF stable_count' >= STABLE_LIMIT THEN "final" ELSE "scroll"
    /\ UNCHANGED <<harvest_vars_but_pc, extractor_vars, details_vars, site,
                   pool_vars, generator_vars, scheduled_vars, attempt>>

\* The rest of a pass: the pane is scrolled down, the waits are taken.
ScrollDown ==
    /\ pc = "scroll"
    /\ attempt' = attempt + 1
    /\ pc' = IF attempt + 1 < MAX_ATTEMPTS THEN "observe" ELSE "final"
    /\ UNCHANGED <<harvest_vars_but_pc, extractor_vars, details_vars, site,
                   pool_vars, generator_vars, scheduled_vars, previous_job_count, stable_count,
                   current_count, recent, highest>>

\* After the loop: the scroll to the very bottom, the last count, the return.
ScrollFinal ==
    /\ pc = "final"
    /\ \E c \in 0..MaxLoaded : current_count' = c
    /\ pc' = "scrolled"
    /\ UNCHANGED <<harvest_vars_but_pc, extractor_vars, details_vars, site,
                   pool_vars, generator_vars, scheduled_vars, attempt, previous_job_count,
                   stable_count, recent, highest>>

InitScroll ==
    /\ HarvestInit
    /\ stub = [w \in Range(WT_CODES) |-> <<>>]
    /\ variant = "hybrid"
    /\ ExtractorIdle
    /\ DetailsIdle
    /\ SiteIdle
    /\ PoolIdle
    /\ GeneratorIdle
    /\ ScrollIdle
    /\ ScheduledIdle

NextScroll ==
    \/ ScrollStart
    \/ ScrollObserve
    \/ ScrollDown
    \/ ScrollFinal

SpecScroll == InitScroll /\ [][NextScroll]_vars

(***************************************************************************)
(* The scheduled run of the Lambda handler: run_scheduled_scraping          *)
(* (src/linkedin_scraper/lambda_handler.py) awaits run_analytics_task       *)
(* (src/linkedin_scraper/simple_api.py), uploads the jobs file when         *)
(* JOBS_BUCKET is set, and returns its response.                            *)
(*                                                                         *)
(* The task's surroundings are stubbed: the statement of the task that      *)
(* raises, if any.  "import": "from src.linkedin_scraper import ..." fails. *)
(* "call": the call of scrape_all_shards_api_only raises; with the function *)
(* of src/linkedin_scraper/src/linkedin_scraper.py, which takes (keywords,  *)
(* max_shards, resume, time_filter), the keyword arguments exp_codes ..     *)
(* batch_number raise TypeError.  "file": reading the jobs file raises.     *)
(***************************************************************************)
TaskFaults == {"none", "import", "call", "file"}

\* What the scraper returns to the task: the job ids of all_jobs.
ScrapedJobs == {<<>>, <<"101">>, <<"101", "102">>}

\* The jobs file before the run.
JobsFiles == {<<>>, <<"101">>}

scheduled_unchanged ==
    <<harvest_vars, extractor_vars, details_vars, site, pool_vars,
      generator_vars, scroll_vars>>

\* handler: a scheduled event arrived, run_scheduled_scraping is run.
ScheduledStart ==
    /\ pc = "idle"
    /\ pc' = "task"
    /\ UNCHANGED <<scheduled_unchanged, scheduled_vars>>

\* run_analytics_task: "if job_id not in active_jobs: ..." and the status
\* "running".
TaskBegin ==
    /\ pc = "task"
    /\ active_jobs' = "running"
    /\ pc' = "task_running"
    /\ UNCHANGED <<scheduled_unchanged, task_fault, jobs_bucket, s3_fault,
                   s3_uploads, scheduled_response, jobs_file>>

\* The task's try block runs to its end: the scraper returned all_jobs, the
\* jobs not yet in the file are appended to it, the status is "completed".
TaskComplete(jobs) ==
    /\ pc = "task_running"
    /\ task_fault = "none"
    /\ LET existing_job_ids == Range(jobs_file)
           new_jobs == SelectSeq(jobs, LAMBDA id : id \notin existing_job_ids)
       IN jobs_file' = jobs_file \o new_jobs
    /\ active_jobs' = "completed"
    /\ pc' = "task_returned"
    /\ UNCHANGED <<scheduled_unchanged, task_fault, jobs_bucket, s3_fault,
                   s3_uploads, scheduled_response>>

\* A statement of the try block raises: "except Exception as e" sets the
\* status "failed" and the task returns None; nothing is raised again.
TaskFail ==
    /\ pc = "task_running"
    /\ task_fault # "none"
    /\ active_jobs' = "failed"
    /\ pc' = "task_returned"
    /\ UNCHANGED <<scheduled_unchanged, task_fault, jobs_bucket, s3_fault,
                   s3_uploads, scheduled_response, jobs_file>>

\* "if JOBS_BUCKET:" upload_file is called; what it raises is caught.
ScheduledUpload ==
    /\ pc = "task_returned"
    /\ jobs_bucket
    /\ s3_uploads' = Append(s3_uploads,
                            IF s3_fault THEN "raised" ELSE "uploaded")
    /\ pc' = "uploaded"
    /\ UNCHANGED <<scheduled_unchanged, active_jobs, task_fault, jobs_bucket,
                   s3_fault, scheduled_response, jobs_file>>

\* run_scheduled_scraping returns: 200 at the end of its try block, 500 from
\* its except block, entered when the awaited task let an exception out.
ScheduledRespond ==
    /\ pc \in {"task_returned", "uploaded", "task_raised"}
    /\ pc = "task_returned" => ~jobs_bucket
    /\ scheduled_response' = IF pc = "task_raised"
                   THEN <<[statusCode |-> 500, body |-> "failed"]>>
                   ELSE <<[statusCode |-> 200, body |-> "completed"]>>
    /\ pc' = "responded"
    /\ UNCHANGED <<scheduled_unchanged, active_jobs, task_fault, jobs_bucket,
                   s3_fault, s3_uploads, jobs_file>>

InitScheduled ==
    /\ HarvestInit
    /\ stub = [w \in Range(WT_CODES) |-> <<>>]
    /\ variant = "api_only"
    /\ ExtractorIdle
    /\ DetailsIdle
    /\ SiteIdle
    /\ PoolIdle
    /\ GeneratorIdle
    /\ ScrollIdle
    /\ active_jobs \in {"absent", "queued"}
    /\ task_fault \in TaskFaults
    /\ jobs_bucket \in BOOLEAN
    /\ s3_fault \in BOOLEAN
    /\ s3_uploads = <<>>
    /\ scheduled_response = <<>>
    /\ jobs_file \in JobsFiles

NextScheduled ==
    \/ ScheduledStart
    \/ TaskBegin
    \/ \E jobs \in ScrapedJobs : TaskComplete(jobs)
    \/ TaskFail
    \/ ScheduledUpload
    \/ ScheduledRespond

SpecScheduled == InitScheduled /\ [][NextScheduled]_vars

(***************************************************************************)
(* Properties.                                                              *)
(***************************************************************************)

\* One uninterrupted run over shards 1..N from an empty ledger, every shard
\* yielding what the catalog holds for it.
RECURSIVE RunShards(_, _)
RunShards(L, n) ==
    IF n > total_possible THEN L
    ELSE RunShards(MergeShard(L, shard_combinations[n], n,
                       scrape_shard_api_only("session", shard_combinations[n])),
                   n + 1)

UninterruptedRun == RunShards(EmptyLedger, 1)

(* C1: after a run with shard cap 5, a run with resume=true fetches shards  *)
(* 6..N only, and its merged record set equals that of one uninterrupted    *)
(* run over shards 1..N (both runs with a valid session, same catalog).     *)
C1_ResumeCorrectness ==
    (/\ pc = "done"
     /\ resume
     /\ max_shards = 0
     /\ api_session = "session"
     /\ prev_run = [max_shards |-> 5, api_session |-> "session", end |-> "done"])
    => /\ fetched = [i \in 1..(total_possible - 5) |-> i + 5]
       /\ Range(all_jobs) = Range(UninterruptedRun.all_jobs)

(* C2: when scrape_all_shards_api_only ends because the shard list is       *)
(* exhausted or the cap is reached, a checkpoint has been written before it *)
(* returns, and the persisted completed-shard set contains every shard      *)
(* completed in the run.                                                    *)
C2_FinalCheckpoint ==
    pc \in {"returned", "done"} =>
        /\ FileComplete(progress_file)
        /\ completed_shards \subseteq Range(progress_file.data.completed_shards)

(* C3: when an interrupt arrives while a shard is being fetched, a          *)
(* checkpoint is written: the persisted state holds every shard completed   *)
(* before the interrupt, and the shard in flight is neither merged nor      *)
(* marked completed.                                                        *)
C3_InterruptCheckpoints ==
    (pc = "interrupted" /\ int_pc = "fetching") =>
        /\ FileComplete(progress_file)
        /\ completed_shards \subseteq Range(progress_file.data.completed_shards)
        /\ ShardKey(shard_combinations[shard_num])
               \notin Range(progress_file.data.completed_shards)

(* C4: at every instant the checkpoint file is absent or holds one complete *)
(* saved state; a truncated checkpoint is never there for a later           *)
(* load_progress to read.                                                   *)
C4_AtomicCheckpoint ==
    /\ ~FileTruncated(progress_file)
    /\ pc # "load_failed"

(* C5: when setup_session returns no session the run is aborted before any  *)
(* shard is attempted: no shard result is recorded and no shard is marked   *)
(* completed.                                                               *)
C5_SetupFailureAborts ==
    [][(pc \in Running /\ api_session = None) =>
           /\ shard_results' = shard_results
           /\ completed_shards' = completed_shards]_vars

(* C6: in every state of scrape_all_shards_api_only, after any shard merges *)
(* and after loading a checkpoint on resume, no two records of all_jobs     *)
(* have the same job_id.                                                    *)
C6_IdentityUnique ==
    \A i, j \in DOMAIN all_jobs :
        i # j => all_jobs[i].job_id # all_jobs[j].job_id

\* A resumed run loaded a checkpoint holding records and then merged a shard
\* whose output names one job twice, a job the checkpoint already held.
C6_Witness ==
    /\ pc = "done"
    /\ resume
    /\ api_session = "session"
    /\ FileComplete(progress_file)
    /\ progress_file.data.all_jobs # <<>>
    /\ \E n \in Range(fetched) :
           /\ scrape_shard_api_only(api_session, shard_combinations[n])
                  = <<"101", "101">>
           /\ ShardKey(shard_combinations[n])
                  \notin Range(progress_file.data.completed_shards)
    /\ Len(all_jobs) = 2

\* The shards, among those completed, whose output held job_id.
YieldingShards(job_id) ==
    {k \in completed_shards : job_id \in Range(scrape_shard_api_only("session", k))}

(* C7: after merging, shard_mappings[job_id] names every shard whose output *)
(* held that job_id, and a record yielded by two different shards has a     *)
(* provenance list of exactly 2 elements (fresh run, valid session).        *)
C7_ProvenanceComplete ==
    (~resume /\ api_session = "session") =>
        \A job_id \in DOMAIN shard_mappings :
            /\ {m.shard_key : m \in Range(shard_mappings[job_id])}
                   = YieldingShards(job_id)
            /\ Cardinality(YieldingShards(job_id)) = 2
                   => Len(shard_mappings[job_id]) = 2

(* C8: for every job_id, each shard key occurs at most once in              *)
(* shard_mappings[job_id].                                                  *)
C8_ProvenanceIsSet ==
    \A job_id \in DOMAIN shard_mappings :
        \A a, b \in DOMAIN shard_mappings[job_id] :
            a # b => shard_mappings[job_id][a].shard_key
                         # shard_mappings[job_id][b].shard_key


(* C9: from a default limiter, after any sequence of record_success and     *)
(* record_error calls, min_delay <= current_delay <= max_delay.             *)
C9_DelayWithinBounds ==
    /\ MIN_DELAY <= rate_limiter.current_delay
    /\ rate_limiter.current_delay <= MAX_DELAY

\* The delay was raised by an error and has since come down onto the floor.
C9_Witness ==
    /\ rate_limiter.current_delay = MIN_DELAY
    /\ rate_limiter.error_count >= 1
    /\ rate_limiter.success_count >= 36

(* C10: as claimed, record_success multiplies current_delay by 0.9 (floored *)
(* at min_delay) exactly on every 3rd success of a run of consecutive       *)
(* successes, and leaves it unchanged on any other success.                 *)
IsRecordSuccess == rate_limiter'.success_count = rate_limiter.success_count + 1

Lowered == Max(MIN_DELAY, (rate_limiter.current_delay * 9) \div 10)

C10_EveryThirdConsecutive ==
    [][IsRecordSuccess =>
         rate_limiter'.current_delay =
             IF streak' % 3 = 0 THEN Lowered ELSE rate_limiter.current_delay]_vars

(* C10: as amended, record_success multiplies current_delay by 0.9 (floored *)
(* at min_delay) exactly when the number of successes recorded since the    *)
(* limiter was built becomes a multiple of 3, errors in between or not, and *)
(* leaves it unchanged on any other success.                                *)
C10_EveryThirdSuccess ==
    [][IsRecordSuccess =>
         rate_limiter'.current_delay =
             IF rate_limiter'.success_count % 3 = 0
             THEN Lowered ELSE rate_limiter.current_delay]_vars

\* The 3rd success overall came right after an error, two successes before it,
\* and lowered the delay.
C10_Witness ==
    /\ rate_limiter.success_count = 3
    /\ rate_limiter.error_count = 1
    /\ streak = 1
    /\ rate_limiter.current_delay = 1350000

(* C11: from any reachable limiter state, after 3 consecutive               *)
(* record_success calls (no record_error between them) current_delay is     *)
(* strictly smaller than it was before them, unless it was already equal to *)
(* min_delay.                                                               *)
C11_ThreeSuccessesLower ==
    Len(window) = 3 =>
        \/ rate_limiter.current_delay < window[1]
        \/ window[1] = MIN_DELAY

\* After an error, three successes in a row brought the delay down from a
\* value above the floor; none of the other two moved it.
C11_Witness ==
    /\ Len(window) = 3
    /\ rate_limiter.error_count >= 1
    /\ streak = 3
    /\ window[1] > MIN_DELAY
    /\ rate_limiter.current_delay < window[1]
    /\ Cardinality(Range(window) \cup {rate_limiter.current_delay}) = 2

(* C12: a single record_error sets current_delay to                         *)
(* min(max_delay, 1.5 * current_delay): the delay strictly increases unless *)
(* it was already equal to max_delay, whatever the success counter holds.   *)
IsRecordError == rate_limiter'.error_count = rate_limiter.error_count + 1

C12_ErrorRaisesAtOnce ==
    [][IsRecordError =>
         /\ rate_limiter'.current_delay =
                Min(MAX_DELAY, (rate_limiter.current_delay * 3) \div 2)
         /\ \/ rate_limiter'.current_delay > rate_limiter.current_delay
            \/ rate_limiter.current_delay = MAX_DELAY]_vars

\* An error right after the first success of a limiter, with the success
\* counter at 1, has raised the delay from the base delay to 1.5 times it.
C12_Witness ==
    /\ rate_limiter.success_count = 1
    /\ rate_limiter.error_count = 1
    /\ streak = 0
    /\ rate_limiter.current_delay = (BASE_DELAY * 3) \div 2

(* C13: every value get_delay returns lies in                               *)
(* [0.8 * current_delay, 1.2 * current_delay] for the current_delay at the  *)
(* time of the call, and get_delay changes neither current_delay nor the    *)
(* counters.                                                                *)
C13_DelayWithinTwentyPercent ==
    [][last_delay' # <<>> =>
         /\ 10 * last_delay'[1] >= 8 * rate_limiter.current_delay
         /\ 10 * last_delay'[1] <= 12 * rate_limiter.current_delay
         /\ rate_limiter' = rate_limiter]_vars

\* get_delay returned the lower end of the range of a delay that is not a
\* multiple of 5 millionths, after successes and an error.
C13_Witness ==
    /\ last_delay # <<>>
    /\ rate_limiter.current_delay % 5 # 0
    /\ rate_limiter.error_count >= 1
    /\ last_delay[1] = CeilDiv(rate_limiter.current_delay * 4, 5)
    /\ last_delay[1] < rate_limiter.current_delay

(* C19: every record the fallback rendered-page path produces has is_repost *)
(* false and source 'dom', every record the primary path produces has       *)
(* source 'api', and the merged record set never holds a record with source *)
(* 'dom' and is_repost true.                                                *)
C19_FallbackNeverRepost ==
    /\ \A k \in DOMAIN shard_results :
           LET paths == site[k[3]]
               jobs == scrape_shard_optimized(paths)
           IN \A i \in DOMAIN jobs :
                  IF paths.api = <<>>
                  THEN jobs[i].source = "dom" /\ jobs[i].is_repost = FALSE
                  ELSE jobs[i].source = "api"
    /\ \A i \in DOMAIN all_jobs :
           ~(all_jobs[i].source = "dom" /\ all_jobs[i].is_repost)

\* The merged set of a finished run holds a fallback record and, from another
\* shard, a primary record flagged as a repost.
C19_Witness ==
    /\ pc = "shards_returned"
    /\ \E i, j \in DOMAIN all_jobs :
           /\ all_jobs[i].source = "dom"
           /\ all_jobs[j].source = "api"
           /\ all_jobs[j].is_repost

(* C20: get_job_details_api sets is_repost true if and only if the          *)
(* originally-listed timestamp differs from the currently-listed timestamp  *)
(* or the explicit repost marker is present and truthy, for every           *)
(* combination of present, absent, equal and unequal timestamps and marker  *)
(* values; it is false when both signals are absent.                        *)
TimestampsDiffer ==
    /\ job_data.listedAt # <<>>
    /\ job_data.originalListedAt # <<>>
    /\ job_data.listedAt[1] # job_data.originalListedAt[1]

C20_RepostIff ==
    (pc = "details_returned" /\ job_details # <<>>) =>
        (job_details[1].is_repost
             <=> (TimestampsDiffer \/ job_data.repostedJobPosting = <<TRUE>>))

(* C14: when the listing endpoint answers full pages (exactly count         *)
(* elements) for the first k pages and a partial page (fewer than count) on *)
(* page k+1, with k+1 <= 5, get_jobs_api issues exactly k+1 listing         *)
(* requests, with offsets 0, count, ..., k*count, and stops; count elements *)
(* then count-1 elements give exactly 2 requests.                           *)
PartialAfterFull ==
    /\ listing.last.kind = "ok"
    /\ listing.last.n < count
    /\ listing.full + 1 <= 5

C14_PaginationContract ==
    (pc \in {"api_returned", "shard_returned"} /\ PartialAfterFull) =>
        requests = [i \in 1..(listing.full + 1) |-> (i - 1) * count]

\* count elements, then count-1 elements: two requests, at offsets 0 and count.
C14_Witness ==
    /\ pc = "shard_returned"
    /\ count = 2
    /\ listing.full = 1
    /\ listing.last = Elements(count - 1, 1)
    /\ requests = <<0, count>>

(* C15: whatever the listing endpoint answers, full pages without end       *)
(* included, get_jobs_api issues at most MAX_PAGES_PER_SHARD = 5 listing    *)
(* requests for a shard, and it returns.                                    *)
C15_PageCap ==
    /\ [](Len(requests) <= 5)
    /\ <>(pc = "shard_returned")

\* The endpoint had a sixth full page to give; the loop stopped after five.
C15_Witness ==
    /\ pc = "shard_returned"
    /\ listing.full > MAX_PAGES_PER_SHARD
    /\ Len(requests) = MAX_PAGES_PER_SHARD
    /\ page = MAX_PAGES_PER_SHARD

(* C16: when the primary listing call of a shard succeeds and returns zero  *)
(* identifiers on its first page, the shard is declared empty and the       *)
(* fallback rendered-page extraction is not attempted for it.               *)
C16_EmptyWithoutFallback ==
    (/\ variant = "optimized"
     /\ pc = "shard_returned"
     /\ listing.full = 0
     /\ listing.last = Elements(0, 0))
    => dom_calls = 0 /\ shard_output = <<>>

(* C17: a shard whose extraction succeeded but yielded zero records (an     *)
(* empty first page, or every candidate removed by the denylist) is empty,  *)
(* not an error: the orchestrator does not call record_error for it and     *)
(* current_delay is not increased by it.                                    *)
C17_EmptyIsNotError ==
    [][(/\ pc = "fetching"
        /\ pc' # "interrupted"
        /\ api_session = "session"
        /\ scrape_shard_api_only(api_session, shard_combinations[shard_num])
               = <<>>)
       => /\ rate_limiter'.error_count = rate_limiter.error_count
          /\ rate_limiter'.current_delay <= rate_limiter.current_delay]_vars

(* C18: whenever the primary listing path fails with a non-200 status or an *)
(* exception while a shard is extracted, on whichever page,                 *)
(* scrape_shard_optimized invokes the rendered-page extraction for the      *)
(* shard; if that fails too the shard yields zero records (and no exception *)
(* leaves scrape_shard_optimized: it returns).                              *)
PrimaryFailed ==
    /\ requests # <<>>
    /\ Response(listing, count, requests[Len(requests)]).kind
           \in {"status", "exception"}

C18_FallbackOnPrimaryError ==
    (variant = "optimized" /\ pc = "shard_returned" /\ PrimaryFailed) =>
        /\ dom_calls = 1
        /\ dom.kind = "error" => shard_output = <<>>

(* C27: for a shard whose key is already in the completed set the           *)
(* orchestrator issues no extractor call, sends no signal to the rate       *)
(* governor, takes no pacing delay, writes no checkpoint, and leaves the    *)
(* record set, the shard results, the provenance map and the completed set  *)
(* unchanged: it goes straight to the next shard.                           *)
IsSkip ==
    /\ pc = "loop"
    /\ shard_num < total_possible
    /\ shard_num' = shard_num + 1
    /\ ~CapReached(shard_num + 1)
    /\ ShardKey(shard_combinations[shard_num + 1]) \in completed_shards

C27_SkipTouchesNothing ==
    [][IsSkip =>
         /\ pc' = "loop"
         /\ fetched' = fetched
         /\ rate_limiter' = rate_limiter
         /\ wait_kind' = wait_kind /\ wait_time' = wait_time
         /\ progress_file' = progress_file /\ json_file' = json_file
         /\ all_jobs' = all_jobs
         /\ shard_results' = shard_results
         /\ shard_mappings' = shard_mappings
         /\ completed_shards' = completed_shards]_vars

\* A resumed run has gone past ten completed shards and has done nothing else.
C27_Witness ==
    /\ resume
    /\ pc = "loop"
    /\ shard_num = 10
    /\ Cardinality(completed_shards) >= 10
    /\ fetched = <<>>
    /\ rate_limiter = NewRateLimiter
    /\ wait_time = <<>>
    /\ all_jobs = progress_file.data.all_jobs

(* C28: in a run of scrape_all_shards_api_only without resume and with      *)
(* max_shards = k >= 1, the shards fetched are the first min(k, N) in rank  *)
(* order, in increasing order: never one at a position above k, and all of  *)
(* them once the loop has ended.                                            *)
C28_ShardCap ==
    (~resume /\ max_shards >= 1) =>
        /\ fetched = [i \in 1..Len(fetched) |-> i]
        /\ Len(fetched) <= Min(max_shards, total_possible)
        /\ pc \in {"returned", "done"}
               => Len(fetched) = Min(max_shards, total_possible)

\* A run capped at 5 shards has ended: it fetched shards 1 to 5, and the
\* shard list goes on.
C28_Witness ==
    /\ pc = "done"
    /\ ~resume
    /\ max_shards = 5
    /\ fetched = <<1, 2, 3, 4, 5>>
    /\ shard_num = 6
    /\ total_possible > 5

(* C29: after each fetched shard exactly one pacing delay is taken, drawn   *)
(* after the shard's success or error signal has been applied to the        *)
(* governor: get_break_delay(), a value in [1.2, 1.5] x current_delay, when *)
(* the shard's position is a multiple of BREAK_INTERVAL = 10, get_delay(),  *)
(* a value in [0.8, 1.2] x current_delay, otherwise.                        *)
IsSleep == pc = "sleeping" /\ pc' = "loop"

C29_PacingCadence ==
    /\ [](pc = "loop" /\ fetched # <<>> /\ fetched[Len(fetched)] = shard_num
            => wait_time # <<>>)
    /\ [][pc = "fetching" => pc' \in {"sleeping", "saving", "interrupted"}]_vars
    /\ [][IsSleep =>
             /\ wait_time' # <<>>
             /\ rate_limiter' = rate_limiter
             /\ LET cur == rate_limiter.current_delay
                    t == wait_time'[1]
                IN IF shard_num % 10 = 0
                   THEN 10 * t >= 12 * cur /\ 10 * t <= 15 * cur
                   ELSE 10 * t >= 8 * cur /\ 10 * t <= 12 * cur]_vars

\* The tenth shard was fetched and failed; the break that followed lasted 1.5
\* times the delay its error had just raised.
C29_Witness ==
    /\ pc = "loop"
    /\ shard_num = 10
    /\ fetched # <<>>
    /\ fetched[Len(fetched)] = 10
    /\ scrape_shard_api_only(api_session, shard_combinations[10]) = <<>>
    /\ rate_limiter.current_delay < MAX_DELAY
    /\ wait_kind = "break"
    /\ wait_time = <<(rate_limiter.current_delay * 3) \div 2>>

(* C23: a shard whose extraction failed does not end the run: it is         *)
(* recorded with yield 0, one error is signalled to the governor for it,    *)
(* and the loop goes on to the pacing delay and the next shard; every shard *)
(* up to the cap is eventually attempted, whatever failed before it.        *)
ShardFailed ==
    /\ pc = "fetching"
    /\ scrape_shard_api_only(api_session, shard_combinations[shard_num]) = <<>>

C23_ShardFailureNotFatal ==
    /\ [][ShardFailed =>
             LET key == ShardKey(shard_combinations[shard_num])
             IN /\ pc' \in {"saving", "sleeping"}
                /\ key \in DOMAIN shard_results'
                /\ shard_results'[key].job_count = 0
                /\ key \in completed_shards'
                /\ rate_limiter'.error_count = rate_limiter.error_count + 1
                /\ rate_limiter'.success_count = rate_limiter.success_count
                /\ shard_num' = shard_num]_vars
    /\ (pc = "loop" /\ shard_num = 0)
           ~> (/\ pc = "done"
               /\ fetched = [i \in 1..Min(max_shards, total_possible) |-> i])

\* Without a session every shard fails; the run capped beyond the list's end
\* still reached the last shard, after as many errors as shards before it.
C23_Witness ==
    /\ pc = "fetching"
    /\ api_session = None
    /\ shard_num = total_possible
    /\ fetched = [i \in 1..total_possible |-> i]
    /\ rate_limiter.error_count = total_possible - 1
    /\ rate_limiter.success_count = 0
    /\ \A i \in 1..(total_possible - 1) :
           shard_results[ShardKey(shard_combinations[i])].job_count = 0

(* C21: no record whose company name matches the denylist pattern is ever   *)
(* in the extractor's output or in the merged record set, on the primary    *)
(* path (concurrent or sequential detail fetches) and on the rendered-page  *)
(* fallback; when every candidate of the shard matches, the shard yields    *)
(* zero records.                                                            *)
MatchesDenylist(company_name) ==
    \E pat \in BLACKLIST_RE : Search(pat, company_name)

\* The company name the catalog holds for a job id, on the path taken.
CompanyOf(job_id) ==
    LET i == CHOOSE k \in DOMAIN PostingIds : PostingIds[k] = job_id
    IN IF variant = "optimized" /\ DetailsSequential(candidates) = <<>>
       THEN cards[i].company_name
       ELSE candidates[i].details[1]

C21_DenylistFiltering ==
    /\ \A i \in DOMAIN collected : ~MatchesDenylist(collected[i].company_name)
    /\ \A i \in DOMAIN shard_output :
           ~MatchesDenylist(shard_output[i].company_name)
    /\ \A i \in DOMAIN all_jobs :
           ~MatchesDenylist(CompanyOf(all_jobs[i].job_id))
    /\ (/\ pc \in {"extracted", "merged"}
        /\ \A i \in DOMAIN candidates :
               /\ candidates[i].details # <<>>
               /\ MatchesDenylist(candidates[i].details[1])
        /\ \A i \in DOMAIN cards : MatchesDenylist(cards[i].company_name))
       => (shard_output = <<>> /\ all_jobs = <<>>)

\* Two candidates resolved, "MAJORA" first and "Acme" after it: the shard
\* was merged with the second one only.
C21_Witness ==
    /\ pc = "merged"
    /\ variant = "api_only"
    /\ Len(candidates) = 2
    /\ candidates[1].details = <<<<"M", "A", "J", "O", "R", "A">>>>
    /\ candidates[2].details = <<<<"A", "c", "m", "e">>>>
    /\ JobIdsOf(shard_output) = <<"102">>
    /\ Len(all_jobs) = 1
    /\ all_jobs[1].job_id = "102"

(* C22: for a shard whose listing returned at least one job id, a failure   *)
(* to resolve some or all of the ids only drops those ids from the shard's  *)
(* output and raises nothing, and the shard is not signalled to the rate    *)
(* governor as an error because of it.                                      *)
DetailFailures == {i \in DOMAIN candidates : candidates[i].details = <<>>}

C22_RecordFailuresLocal ==
    /\ [](pc \in {"extracted", "merged"} /\ variant = "api_only"
            => Range(JobIdsOf(shard_output)) =
                   {candidates[i].job_id :
                        i \in {k \in DOMAIN candidates : Kept(candidates[k])}})
    /\ [][(/\ pc = "extracted"
            /\ pc' = "merged"
            /\ variant = "api_only"
            /\ DetailFailures # {}
            /\ \A i \in DOMAIN candidates \ DetailFailures :
                   ~is_blacklisted(candidates[i].details[1]))
           => rate_limiter'.error_count = rate_limiter.error_count]_vars

(* C30: the merged record list, the provenance map, the shard results and   *)
(* the completed-shard set change only in steps of the control thread taken *)
(* while no detail-fetch worker is in flight; a shard is merged and marked  *)
(* completed only after all of its detail fetches have finished and their   *)
(* results were taken.                                                      *)
C30_JoinBeforeMerge ==
    /\ [][ledger_vars' # ledger_vars
            => /\ in_flight = {} /\ in_flight' = {}
               /\ finished = {}
               /\ pc = "extracted"]_vars
    /\ [][in_flight' # in_flight \/ finished' # finished
            => ledger_vars' = ledger_vars]_vars
    /\ [](pc = "merged" => in_flight = {} /\ finished = {})

\* Two workers ran, the second came back first, and the shard was merged
\* after both: its jobs are in completion order.
C30_Witness ==
    /\ pc = "merged"
    /\ variant = "api_only"
    /\ Len(candidates) = 2
    /\ JobIdsOf(shard_output) = <<"102", "101">>
    /\ JobIdsOf(all_jobs) = <<"102", "101">>
    /\ completed_shards # {}
    /\ in_flight = {}

(* C24: for code lists of sizes s1, s2, s3 with distinct values,            *)
(* generate_prioritized_shards in default ordering gives exactly            *)
(* s1 * s2 * s3 shards, with pairwise distinct shard keys, every            *)
(* combination of codes once (126 for 6 x 7 x 3).                           *)
DefaultGenerated == pc = "generated" /\ priority = <<>>

C24_GeneratorCompleteness ==
    DefaultGenerated =>
        LET out == generated[1]
        IN /\ Len(out) = Len(facets.exp) * Len(facets.jt) * Len(facets.wt)
           /\ \A i, k \in DOMAIN out :
                  i # k => FormatKey(out[i]) # FormatKey(out[k])
           /\ \A e \in Range(facets.exp), j \in Range(facets.jt),
                    w \in Range(facets.wt) :
                  Cardinality({i \in DOMAIN out : out[i] = <<e, j, w>>}) = 1
           /\ (Len(facets.exp) = 6 /\ Len(facets.jt) = 7 /\ Len(facets.wt) = 3)
                  => Len(out) = 126

\* The full configuration was generated: 126 shards.
C24_Witness ==
    /\ DefaultGenerated
    /\ facets = [exp |-> ALL_EXP_CODES, jt |-> ALL_JT_CODES, wt |-> WT_CODES]
    /\ Len(generated[1]) = 126
    /\ generated[1][126] = <<"6", "O", "3">>

(* C25: under default ordering the shard sequence is the nested iteration   *)
(* with experience outermost and workplace type innermost, and the rank     *)
(* e_idx*|JT|*|WT| + j_idx*|WT| + w_idx of a shard is its 0-based position  *)
(* in it: a bijection from the index triples onto 0..N-1.                   *)
C25_DefaultRankOrder ==
    DefaultGenerated =>
        LET out == generated[1]
            E == 0..(Len(facets.exp) - 1)
            J == 0..(Len(facets.jt) - 1)
            W == 0..(Len(facets.wt) - 1)
        IN /\ \A e \in E, j \in J, w \in W :
                  /\ Rank(facets, e, j, w) + 1 \in DOMAIN out
                  /\ out[Rank(facets, e, j, w) + 1] =
                         <<facets.exp[e + 1], facets.jt[j + 1],
                           facets.wt[w + 1]>>
           /\ {Rank(facets, x[1], x[2], x[3]) : x \in E \X J \X W}
                  = 0..(Len(out) - 1)
           /\ Cardinality(E \X J \X W) = Len(out)

\* Two codes in each of the first two lists, one in the third: the four
\* shards come in the order (1,I), (1,F), (2,I), (2,F).
C25_Witness ==
    /\ DefaultGenerated
    /\ facets = [exp |-> <<"1", "2">>, jt |-> <<"I", "F">>, wt |-> <<"2">>]
    /\ generated[1] = <<<<"1", "I", "2">>, <<"1", "F", "2">>,
                        <<"2", "I", "2">>, <<"2", "F", "2">>>>

(* C26: when a historical ordering is given to generate_prioritized_shards, *)
(* the output is a permutation of the full cross product: the shards named  *)
(* by the ordering first, in its order, then every other shard in default   *)
(* order; none lost, none twice.                                            *)
C26_PriorityOrdering ==
    (pc = "generated" /\ priority # <<>>) =>
        LET out == generated[1]
            default == generate_prioritized_shards(<<>>, facets)
            named == [i \in DOMAIN priority |-> ParseKey(priority[i])]
            unnamed == SelectSeq(default, LAMBDA sh : sh \notin Range(named))
        IN /\ SubSeq(out, 1, Len(named)) = named
           /\ out = named \o unnamed
           /\ Len(out) = Len(default)
           /\ Range(out) = Range(default)

(* C34: after any sequence of shards processed by                           *)
(* scrape_all_shards_optimized, also when a shard's output holds the same   *)
(* job_id twice, no two records of all_jobs have the same job_id.           *)
C34_OptimizedIdentityUnique ==
    variant = "optimized" =>
        \A i \in DOMAIN all_jobs : \A j \in (i + 1)..Len(all_jobs) :
            all_jobs[i].job_id # all_jobs[j].job_id

(* C36: at every boundary between two iterations of the shard loop of       *)
(* scrape_all_shards_api_only, and in every checkpoint save_progress wrote  *)
(* to its end, the completed-shard set is the key set of the shard-result   *)
(* table and every job_id of the record list has a provenance list that is  *)
(* not empty; in fresh and in resumed runs.                                 *)
LedgerConsistent(jobs, results, mappings, completed) ==
    /\ completed = DOMAIN results
    /\ \A i \in DOMAIN jobs :
           /\ jobs[i].job_id \in DOMAIN mappings
           /\ mappings[jobs[i].job_id] # <<>>

C36_LedgerConsistency ==
    /\ pc = "loop"
           => LedgerConsistent(all_jobs, shard_results, shard_mappings,
                               completed_shards)
    /\ FileComplete(progress_file)
           => LedgerConsistent(progress_file.data.all_jobs,
                               progress_file.data.shard_results,
                               progress_file.data.shard_mappings,
                               Range(progress_file.data.completed_shards))

\* A resumed run that loaded ten completed shards with their jobs has merged
\* two more, one of them without jobs, and is between two iterations.
C36_Witness ==
    /\ resume
    /\ pc = "loop"
    /\ shard_num = 12
    /\ Len(fetched) = 2
    /\ Cardinality(completed_shards) = 12
    /\ all_jobs # <<>>
    /\ \E k \in DOMAIN shard_results : shard_results[k].job_count = 0
    /\ FileComplete(progress_file)
    /\ Len(progress_file.data.completed_shards) = 10

(* C37: the shard cap bounds positions in the shard list, not the number of *)
(* shards fetched in the run: a resumed run with max_shards = k fetches     *)
(* exactly the shards among the first k positions that the checkpoint does  *)
(* not hold as completed, and nothing when it holds them all.  (k is below  *)
(* the save interval, so the checkpoint read at the start is still the one  *)
(* on disk.)                                                                *)
LoadedCompleted == InitialLedger(TRUE, progress_file).completed_shards

C37_CapBoundsPositions ==
    (resume /\ max_shards >= 1 /\ max_shards < SAVE_INTERVAL
        /\ pc \in Running \cup {"done"}) =>
        LET open == {n \in 1..Min(max_shards, total_possible) :
                        ShardKey(shard_combinations[n]) \notin LoadedCompleted}
        IN /\ Range(fetched) \subseteq open
           /\ \A i \in 1..(Len(fetched) - 1) : fetched[i] < fetched[i + 1]
           /\ pc \in {"returned", "done"} => Range(fetched) = open
           /\ (open = {} /\ pc = "done") => (fetched = <<>> /\ all_jobs =
                   InitialLedger(TRUE, progress_file).all_jobs)

\* A run resumed with cap 5 over a checkpoint of ten completed shards has
\* ended without a fetch.
C37_Witness ==
    /\ resume
    /\ pc = "done"
    /\ max_shards = 5
    /\ Cardinality(LoadedCompleted) = 10
    /\ fetched = <<>>
    /\ shard_num = 6

(* C38: a shard whose extraction yielded nothing is added to the completed  *)
(* set like a successful one; a resumed run loads every completed shard of  *)
(* the checkpoint, the set only grows while the run lasts, and no shard in  *)
(* it is fetched: once a checkpoint holds a failed shard, no later resumed  *)
(* run fetches it again.                                                    *)
C38_FailedNeverRetried ==
    /\ [][(pc = "fetching" /\ pc' # "interrupted")
            => ShardKey(shard_combinations[shard_num]) \in completed_shards']_vars
    /\ [][(pc \notin Running /\ pc' = "loop" /\ resume')
            => Range(progress_file.data.completed_shards)
                   \subseteq completed_shards']_vars
    /\ [][(pc \in Running /\ pc' \in Running)
            => completed_shards \subseteq completed_shards']_vars
    /\ [][pc' = "fetching"
            => ShardKey(shard_combinations[shard_num']) \notin completed_shards]_vars

\* A run without a session failed on every shard and saved after the tenth;
\* the run resumed from that checkpoint, with a session, fetched shards 11 and
\* 12 only.
C38_Witness ==
    /\ resume
    /\ pc = "done"
    /\ api_session = "session"
    /\ prev_run.api_session = None
    /\ fetched = <<11, 12>>
    /\ \A n \in 1..10 :
           shard_results[ShardKey(shard_combinations[n])].job_count = 0

(* C33: scrape_jobs(driver, max_pages, max_shards = k) of the hybrid        *)
(* scraper, k >= 1, loads and extracts exactly the first min(k, N) shards,  *)
(* in rank order, before it stops (N = 126 with the full code lists).       *)
C33_HybridShardLimit ==
    (variant = "hybrid" /\ pc = "done") =>
        fetched = [i \in 1..Min(max_shards, total_possible) |-> i]

(* C35, as stated: progressive_scroll_and_load makes at most max_attempts   *)
(* (20) scroll passes, stops as soon as the job-card count has failed to    *)
(* grow on 3 consecutive observations, and never stops early while the      *)
(* count grew (over the observation before) within the last 3 observations. *)
LeftEarly == pc \in {"final", "scrolled"} /\ attempt < MAX_ATTEMPTS
ThreeWithout(what) ==
    Len(recent) = STABLE_LIMIT /\ \A i \in DOMAIN recent : ~recent[i][what]

C35_ScrollLoopAsStated ==
    /\ attempt <= MAX_ATTEMPTS
    /\ pc = "scroll" => ~ThreeWithout("grew")
    /\ LeftEarly => ThreeWithout("grew")

(* C35, amended: the same with growth meaning a count above every count     *)
(* observed before in this call: the loop makes at most 20 passes, stops as *)
(* soon as 3 consecutive observations brought no new highest count, never   *)
(* stops early otherwise, and a new highest count resets stable_count to 0. *)
C35_ScrollLoop ==
    /\ attempt <= MAX_ATTEMPTS
    /\ previous_job_count = highest
    /\ pc = "scroll" => ~ThreeWithout("higher")
    /\ LeftEarly => ThreeWithout("higher")
    /\ (pc = "scroll" /\ recent[Len(recent)].higher) => stable_count = 0

\* The count rose twice, then stood still for three observations: the loop
\* was left in its fifth pass.
C35_Witness ==
    /\ pc = "scrolled"
    /\ attempt = 4
    /\ previous_job_count = 2
    /\ stable_count = STABLE_LIMIT
    /\ ThreeWithout("higher")

(* C31: for fixed listing and detail responses, the job ids of the merged   *)
(* record list and the provenance map after a shard are the same whatever   *)
(* the order in which the concurrent detail fetches complete: both are      *)
(* determined by the responses alone.                                       *)
KeptIds ==
    {candidates[i].job_id :
         i \in {k \in DOMAIN candidates : Kept(candidates[k])}}

ProvenanceOfFirstShard ==
    LET shard == shard_combinations[1]
    IN [job_id \in KeptIds |->
            <<[shard_key |-> ShardKey(shard), shard_num |-> 1,
               labels |-> Labels(shard)]>>]

C31_OrderIndependence ==
    (pc = "merged" /\ variant = "api_only")
        => /\ Range(JobIdsOf(all_jobs)) = KeptIds
           /\ Len(all_jobs) = Cardinality(KeptIds)
           /\ seen_job_ids = KeptIds
           /\ shard_mappings = ProvenanceOfFirstShard

\* Both fetches of a two-job shard were kept and the second one completed
\* first; the merged ids and the provenance map are those of the responses.
C31_Witness ==
    /\ pc = "merged"
    /\ variant = "api_only"
    /\ KeptIds = {"101", "102"}
    /\ all_jobs[1].job_id = "102"
    /\ all_jobs[2].job_id = "101"
    /\ DOMAIN shard_mappings = {"101", "102"}

(* C32: whatever the shards yield (jobs, nothing, a listing error on any    *)
(* page, detail failures), scrape_all_shards_api_only comes to its return   *)
(* statement: it visits each rank position at most once, so at most         *)
(* total_possible shards, raises nothing on the way, and returns a result    *)
(* that holds an entry for every shard it visited.                          *)
VisitedKeys == {ShardKey(shard_combinations[fetched[i]]) : i \in DOMAIN fetched}

C32_GuaranteedTermination ==
    /\ [](/\ shard_num <= total_possible
          /\ Len(fetched) <= total_possible
          /\ \A i \in DOMAIN fetched :
                 /\ fetched[i] \in 1..total_possible
                 /\ \A j \in DOMAIN fetched : i < j => fetched[i] < fetched[j])
    /\ [](pc \notin {"interrupted", "load_failed"})
    /\ [](pc = "returned" => DOMAIN shard_results = VisitedKeys)
    /\ (pc \in Running) ~> (pc = "returned")

\* Without a session every shard of the whole list failed, and the function
\* returned after the last of them.
C32_Witness ==
    /\ pc = "returned"
    /\ api_session = None
    /\ Len(fetched) = total_possible
    /\ rate_limiter.error_count = total_possible
    /\ all_jobs = <<>>

(* C39: when the listing request of page j > 1 fails (a status other than   *)
(* 200, or an exception) after pages 1..j-1 succeeded, get_jobs_api returns *)
(* exactly the records of pages 1..j-1 and issues no listing request after  *)
(* the failed one; the orchestrator signals a success to the governor when  *)
(* that result is not empty.                                                *)
FailedAfterFirstPage ==
    /\ variant = "api_only"
    /\ listing.full \in 1..(MAX_PAGES_PER_SHARD - 1)
    /\ listing.last.kind \in {"status", "exception"}

\* The records of the full pages before the failed one, in listing order.
RecordsBeforeFailure ==
    [k \in 1..(listing.full * listing.kept) |->
        get_job_details_api(variant,
            ((k - 1) \div listing.kept) * count + ((k - 1) % listing.kept) + 1,
            PlainJobData)[1]]

C39_PartialPagesSurvive ==
    /\ []((FailedAfterFirstPage
            /\ pc \in {"api_returned", "shard_returned", "signalled"})
           => /\ api_jobs = RecordsBeforeFailure
              /\ requests = [p \in 1..(listing.full + 1) |-> (p - 1) * count])
    /\ []((FailedAfterFirstPage /\ pc \in {"shard_returned", "signalled"})
           => shard_output = RecordsBeforeFailure)
    /\ [][(/\ FailedAfterFirstPage
            /\ pc = "shard_returned"
            /\ pc' = "signalled"
            /\ shard_output # <<>>)
           => /\ rate_limiter'.success_count = rate_limiter.success_count + 1
              /\ rate_limiter'.error_count = rate_limiter.error_count]_vars

\* Two full pages of two records each came back, the request of the third
\* page raised: the four records were returned and a success was signalled.
C39_Witness ==
    /\ pc = "signalled"
    /\ variant = "api_only"
    /\ count = 2
    /\ listing = [full |-> 2, kept |-> 2, last |-> RequestRaises]
    /\ requests = <<0, 2, 4>>
    /\ Len(shard_output) = 4
    /\ rate_limiter.success_count = 1
    /\ rate_limiter.error_count = 0

(* C40: run_scheduled_scraping returns statusCode 500 whenever the          *)
(* analytics task failed (job status "failed"), and 200 with the            *)
(* "completed" message only when the task completed; a failed task never    *)
(* leads to a 200 response or to an S3 upload attempt.                      *)
C40_ScheduledStatus ==
    /\ (pc \in {"uploaded", "responded"} /\ active_jobs = "failed")
           => s3_uploads = <<>>
    /\ pc = "responded"
           => /\ active_jobs = "failed"
                     => scheduled_response[1].statusCode = 500
              /\ scheduled_response[1].statusCode = 200
                     => active_jobs = "completed"

=============================================================================
